---- MODULE Spec2Model ----
(***************************************************************************)
(* A state-machine model of four pieces of the rucene core:               *)
(*   - core/search/collector/top_docs.rs   (TopDocsCollector)             *)
(*   - core/codec/lucene53/norms_consumer.rs (Lucene53NormsConsumer)      *)
(*   - core/store/mmap_index_input.rs      (ReadOnlySource, MmapIndexInput)*)
(*   - core/search/posting_iterator.rs                                     *)
(* Each piece has its own specification (SpecTopDocs, SpecNorms, SpecMmap) *)
(* over the shared variable tuple; the variables of the other pieces stay  *)
(* at their initial values.                                                *)
(***************************************************************************)
EXTENDS Integers, Sequences, FiniteSets, Bags, TLC

VARIABLES
    \* ---- TopDocsCollector (top_docs.rs:22-39)
    pq,              \* BinaryHeap<ScoreDoc>, as the heap's backing vector
    estimated_hits,  \* capacity K
    total_hits,
    reader_context,  \* Option<LeafReaderContext>: <<>> or <<[ord, doc_base]>>
    channel,         \* "None" or "Some": the collector's Option<(Sender, Receiver)>
    queue,           \* messages in flight in the unbounded channel
    receiver,        \* TRUE while the channel's Receiver is alive
    leafs,           \* the TopDocsLeafCollector handles handed out, by slot
    fin_pc,          \* "idle", "draining" (inside finish()) or "dropped" (collector gone)
    aborted,         \* TRUE once a call has panicked
    last,            \* the last call and its outcome
    top,             \* the last TopDocs returned by top_docs()
    hist,            \* history: what was collected, by whom (not program state)
    \* ---- Lucene53NormsConsumer (norms_consumer.rs:10-14)
    meta,            \* bytes appended to the meta output after its header
    data,            \* bytes appended to the data output after its header
    max_doc,
    nstate,          \* "live" or "dropped"
    nlast,           \* the last add_norms_field call and its outcome
    nhist,           \* history: fields that succeeded, order of the writes
    \* ---- MmapIndexInput (mmap_index_input.rs:111-119)
    map,             \* the mapped file's bytes
    sources,         \* the ReadOnlySource values that exist, by slot
    inputs,          \* the MmapIndexInput values that exist, by slot
    mlast,           \* the last call on an input and its outcome
    \* ---- posting_iterator.rs
    iters,           \* the EmptyPostingIterator values that exist, by slot
    plast,           \* the last call of posting_iterator.rs and what it returned
    pcalls           \* history: the calls made so far, in order

cvars == <<pq, estimated_hits, total_hits, reader_context, channel, queue,
           receiver, leafs, fin_pc, aborted, last, top, hist>>
nvars == <<meta, data, max_doc, nstate, nlast, nhist>>
mvars == <<map, sources, inputs, mlast>>
pvars == <<iters, plast, pcalls>>
vars  == <<cvars, nvars, mvars, pvars>>

None == "None"

Min(a, b) == IF a <= b THEN a ELSE b

SetMax(S) == CHOOSE m \in S : \A x \in S : x <= m
SetMin(S) == CHOOSE m \in S : \A x \in S : m <= x

Reverse(s) == [i \in 1..Len(s) |-> s[Len(s) + 1 - i]]

(***************************************************************************)
(*                    TopDocsCollector  (top_docs.rs)                      *)
(***************************************************************************)

\* Bounds of the collector model.
MaxK == 2          \* estimated_hits ranges over 0..MaxK
MaxDocs == 3       \* collect calls in one run, direct and through sub-collectors
MaxSent == 2       \* of which through sub-collectors
NSeg == 2          \* segments (leaf readers)
MaxLocal == 1      \* local doc ids of a segment are 0..MaxLocal
MaxScore == 2      \* scores are 1..MaxScore
\* Bounds of the use with scores that break the scorer's contract.
MaxNanK == 1
MaxNanDocs == 2
\* Bounds of the sequential use of the collector (no sub-collectors).
MaxSeqK == 3
MaxSeqDocs == 5
MaxSeqScore == 3

Segs == 1..NSeg
LocalIds == 0..MaxLocal
\* One sub-collector per segment: the handle for segment s lives in slot s.
Slots == Segs

\* reader.doc_base() of segment s: consecutive, disjoint doc-id ranges.
DocBase(s) == (s - 1) * (MaxLocal + 1)

\* ScoreDoc::new(doc, score). seg and local are history fields: the segment and the
\* local id the document was collected from; no operation of the program reads them.
ScoreDoc(doc, score, seg, local) ==
    [doc |-> doc, score |-> score, seg |-> seg, local |-> local]

\* Scores are f32 values. The finite ones are the integers from 1 up; negative
\* infinity lies below every one of them, and NaN is a value of its own.
NegInf == 0 - 1
NaN == 0 - 2

\* a < b on f32: false whenever either side is NaN.
FloatLt(a, b) == a /= NaN /\ b /= NaN /\ a < b

\* What the two debug assertions of collect reject: (score - NEG_INFINITY).abs() is
\* NaN for both values, and NaN >= EPSILON is false.
IllegalScore(score) == score = NegInf \/ score = NaN

\* Ord for ScoreDoc, a <= b: the order is the reverse of the score order, so that
\* the max-heap BinaryHeap<ScoreDoc> keeps the lowest score at its root.
OrdLe(a, b) == b.score <= a.score

Swap(h, i, j) == [h EXCEPT ![i] = h[j], ![j] = h[i]]

\* BinaryHeap::sift_up(0, pos), positions counted from 1.
RECURSIVE SiftUp(_, _)
SiftUp(h, pos) ==
    IF pos = 1 THEN h
    ELSE LET parent == pos \div 2 IN
         IF OrdLe(h[pos], h[parent]) THEN h
         ELSE SiftUp(Swap(h, pos, parent), parent)

\* The greater child of pos (the right one on a tie), or 0 when pos is a leaf.
GreaterChild(h, pos) ==
    LET l == 2 * pos  r == 2 * pos + 1 IN
    IF l > Len(h) THEN 0
    ELSE IF r <= Len(h) /\ OrdLe(h[l], h[r]) THEN r ELSE l

\* BinaryHeap::sift_down(pos): what dropping a modified PeekMut runs.
RECURSIVE SiftDown(_, _)
SiftDown(h, pos) ==
    LET c == GreaterChild(h, pos) IN
    IF c = 0 THEN h
    ELSE IF OrdLe(h[c], h[pos]) THEN h
    ELSE SiftDown(Swap(h, pos, c), c)

\* BinaryHeap::sift_down_to_bottom(pos): down to a leaf, then back up.
RECURSIVE SiftDownToBottom(_, _)
SiftDownToBottom(h, pos) ==
    LET c == GreaterChild(h, pos) IN
    IF c = 0 THEN SiftUp(h, pos)
    ELSE SiftDownToBottom(Swap(h, pos, c), c)

\* self.pq.push(score_doc)
HeapPush(h, sd) == SiftUp(Append(h, sd), Len(h) + 1)

\* self.pq.pop().unwrap() on a non-empty heap: the item and the heap left.
HeapPop(h) ==
    LET item == h[Len(h)]
        rest == SubSeq(h, 1, Len(h) - 1)
    IN IF rest = <<>> THEN [item |-> item, heap |-> rest]
       ELSE [item |-> rest[1], heap |-> SiftDownToBottom([rest EXCEPT ![1] = item], 1)]

\* Mutants of add_doc: a tie replaces the root (<= for <); the root is replaced
\* without a comparison; only documents that enter the heap are counted.
add_doc_tie_replaces(h, hits, k, sd) ==
    LET at_capacity == Len(h) = k IN
    [total_hits |-> hits + 1,
     pq |-> IF ~at_capacity THEN HeapPush(h, sd)
            ELSE IF h /= <<>> /\ h[1].score <= sd.score
                 THEN SiftDown([h EXCEPT ![1] = sd], 1)
                 ELSE h]

add_doc_always_replaces(h, hits, k, sd) ==
    LET at_capacity == Len(h) = k IN
    [total_hits |-> hits + 1,
     pq |-> IF ~at_capacity THEN HeapPush(h, sd)
            ELSE IF h /= <<>>
                 THEN SiftDown([h EXCEPT ![1] = sd], 1)
                 ELSE h]

add_doc_counts_entered(h, hits, k, sd) ==
    LET at_capacity == Len(h) = k IN
    IF ~at_capacity THEN [total_hits |-> hits + 1, pq |-> HeapPush(h, sd)]
    ELSE IF h /= <<>> /\ FloatLt(h[1].score, sd.score)
         THEN [total_hits |-> hits + 1, pq |-> SiftDown([h EXCEPT ![1] = sd], 1)]
         ELSE [total_hits |-> hits, pq |-> h]

\* add_doc: the heap and the hit count after folding sd into (h, hits) at capacity k.
add_doc(h, hits, k, sd) ==
    LET at_capacity == Len(h) = k IN
    [total_hits |-> hits + 1,
     pq |-> IF ~at_capacity THEN HeapPush(h, sd)
            ELSE IF h /= <<>> /\ FloatLt(h[1].score, sd.score)
                 THEN SiftDown([h EXCEPT ![1] = sd], 1)
                 ELSE h]

\* The pop loop of top_docs: n pops, in pop order.
RECURSIVE PopN(_, _)
PopN(h, n) ==
    IF n = 0 THEN [popped |-> <<>>, heap |-> h]
    ELSE LET p == HeapPop(h)
             r == PopN(p.heap, n - 1)
         IN [popped |-> <<p.item>> \o r.popped, heap |-> r.heap]

NoTop == [total_hits |-> 0 - 1, score_docs |-> <<>>, first |-> FALSE, merged |-> FALSE]
FreeLeaf == [st |-> "free", doc_base |-> 0, seg |-> 0]
NoSent == [i \in Slots |-> <<>>]
\* The history of a run, and its bounds: at most `docs` collect calls, of which at
\* most `sent` through sub-collectors, with scores in 1..score and in `special`.
Limit(docs, sent, score) ==
    [docs |-> docs, sent |-> sent, score |-> score, special |-> {}]
LimitSpecial(docs, sent, score) ==
    [docs |-> docs, sent |-> sent, score |-> score, special |-> {NegInf, NaN}]
\* The scores a scorer may return in a run.
ScoresOf(limit) == (1..limit.score) \cup limit.special
NoHist(limit) == [sent |-> NoSent, base |-> <<>>, seen |-> EmptyBag, ndirect |-> 0,
                  nsent |-> 0, cur_seg |-> 0, popped |-> FALSE, limit |-> limit]

Alive == {i \in Slots : leafs[i].st = "alive"}
CallerFree == fin_pc = "idle" /\ ~aborted
Called(op, ok) == [op |-> op, ok |-> ok]

InitTopDocs ==
    /\ pq = <<>>
    /\ estimated_hits \in 0..MaxK
    /\ total_hits = 0
    /\ reader_context = <<>>
    /\ channel = None
    /\ queue = <<>>
    /\ receiver = FALSE
    /\ leafs = [i \in Slots |-> FreeLeaf]
    /\ fin_pc = "idle"
    /\ aborted = FALSE
    /\ last = Called("new", TRUE)
    /\ top = NoTop
    /\ hist = NoHist(Limit(MaxDocs, MaxSent, MaxScore))

\* SearchCollector::set_next_reader
set_next_reader(s) ==
    /\ CallerFree
    /\ reader_context' = <<[ord |-> s, doc_base |-> DocBase(s)]>>
    /\ last' = Called("set_next_reader", TRUE)
    /\ top' = NoTop
    /\ hist' = [hist EXCEPT !.cur_seg = s]
    /\ UNCHANGED <<nvars, mvars, pvars, pq, estimated_hits, total_hits, channel, queue,
                   receiver, leafs, fin_pc, aborted>>

\* Collector::collect on the collector itself, scorer.score() returning Ok(score).
\* Without a reader context the call panics (debug_assert, or unwrap in doc_base).
\* A score of negative infinity or NaN fails a debug assertion: the call panics in a
\* build with debug assertions and goes on to add_doc in a build without.
collect(doc, score) ==
    /\ CallerFree
    /\ hist.ndirect + hist.nsent < hist.limit.docs
    /\ score \in ScoresOf(hist.limit)
    /\ \E build \in IF IllegalScore(score) THEN {"debug", "release"} ELSE {"release"} :
       IF reader_context = <<>> \/ (IllegalScore(score) /\ build = "debug")
       THEN /\ aborted' = TRUE
            /\ last' = Called("collect", FALSE)
            /\ UNCHANGED <<pq, total_hits, hist>>
       ELSE LET sd == ScoreDoc(doc + reader_context[1].doc_base, score, hist.cur_seg, doc)
                r == add_doc(pq, total_hits, estimated_hits, sd)
            IN /\ pq' = r.pq
               /\ total_hits' = r.total_hits
               /\ last' = Called("collect", TRUE)
               /\ hist' = [hist EXCEPT !.ndirect = @ + 1,
                                       !.seen = @ (+) SetToBag({score})]
               /\ UNCHANGED aborted
    /\ top' = NoTop
    /\ UNCHANGED <<nvars, mvars, pvars, estimated_hits, reader_context, channel, queue,
                   receiver, leafs, fin_pc>>

\* Collector::collect on the collector, scorer.score() returning an error: `?`
\* returns it before add_doc.
collect_score_err ==
    /\ CallerFree
    /\ reader_context /= <<>>
    /\ last' = Called("collect", FALSE)
    /\ top' = NoTop
    /\ UNCHANGED <<nvars, mvars, pvars, pq, estimated_hits, total_hits, reader_context,
                   channel, queue, receiver, leafs, fin_pc, aborted, hist>>

\* SearchCollector::leaf_collector for segment s, the segments taken in order, each
\* once. A collector without a channel gets a new one.
leaf_collector(s) ==
    /\ CallerFree
    /\ leafs[s].st = "free"
    /\ \A j \in Slots : j < s => leafs[j].st /= "free"
    /\ leafs' = [leafs EXCEPT ![s] = [st |-> "alive", doc_base |-> DocBase(s),
                                       seg |-> s]]
    /\ channel' = "Some"
    /\ receiver' = TRUE
    /\ queue' = IF channel = None THEN <<>> ELSE queue
    /\ hist' = IF channel = None THEN [hist EXCEPT !.sent = NoSent, !.base = <<>>]
               ELSE hist
    /\ last' = Called("leaf_collector", TRUE)
    /\ top' = NoTop
    /\ UNCHANGED <<nvars, mvars, pvars, pq, estimated_hits, total_hits, reader_context,
                   fin_pc, aborted>>

\* Mutant of leaf_collect: the sub-collector forwards the local id, without its base.
leaf_collect_local_id(i, doc, score) ==
    /\ ~aborted
    /\ leafs[i].st = "alive"
    /\ hist.ndirect + hist.nsent < hist.limit.docs
    /\ score \in ScoresOf(hist.limit)
    /\ hist.nsent < hist.limit.sent
    /\ LET sd == ScoreDoc(doc, score, leafs[i].seg, doc) IN
       IF receiver
       THEN /\ queue' = Append(queue, sd)
            /\ hist' = [hist EXCEPT !.sent[i] = Append(@, sd), !.nsent = @ + 1]
            /\ last' = Called("leaf_collect", TRUE)
       ELSE /\ last' = Called("leaf_collect", FALSE)
            /\ UNCHANGED <<queue, hist>>
    /\ top' = NoTop
    /\ UNCHANGED <<nvars, mvars, pvars, pq, estimated_hits, total_hits, reader_context,
                   channel, receiver, leafs, fin_pc, aborted>>

\* Mutant of leaf_collect: the outcome of send() is ignored.
leaf_collect_ignores_send(i, doc, score) ==
    /\ ~aborted
    /\ leafs[i].st = "alive"
    /\ hist.ndirect + hist.nsent < hist.limit.docs
    /\ score \in ScoresOf(hist.limit)
    /\ hist.nsent < hist.limit.sent
    /\ LET sd == ScoreDoc(doc + leafs[i].doc_base, score, leafs[i].seg, doc) IN
       IF receiver
       THEN /\ queue' = Append(queue, sd)
            /\ hist' = [hist EXCEPT !.sent[i] = Append(@, sd), !.nsent = @ + 1]
            /\ last' = Called("leaf_collect", TRUE)
       ELSE /\ last' = Called("leaf_collect", TRUE)
            /\ UNCHANGED <<queue, hist>>
    /\ top' = NoTop
    /\ UNCHANGED <<nvars, mvars, pvars, pq, estimated_hits, total_hits, reader_context,
                   channel, receiver, leafs, fin_pc, aborted>>

\* Collector::collect on sub-collector i (any thread, any time while it is alive),
\* scorer.score() returning Ok(score).
leaf_collect(i, doc, score) ==
    /\ ~aborted
    /\ leafs[i].st = "alive"
    /\ hist.ndirect + hist.nsent < hist.limit.docs
    /\ score \in ScoresOf(hist.limit)
    /\ hist.nsent < hist.limit.sent
    /\ LET sd == ScoreDoc(doc + leafs[i].doc_base, score, leafs[i].seg, doc) IN
       IF receiver
       THEN /\ queue' = Append(queue, sd)
            /\ hist' = [hist EXCEPT !.sent[i] = Append(@, sd), !.nsent = @ + 1]
            /\ last' = Called("leaf_collect", TRUE)
       ELSE /\ last' = Called("leaf_collect", FALSE)
            /\ UNCHANGED <<queue, hist>>
    /\ top' = NoTop
    /\ UNCHANGED <<nvars, mvars, pvars, pq, estimated_hits, total_hits, reader_context,
                   channel, receiver, leafs, fin_pc, aborted>>

\* Dropping sub-collector i releases its Sender.
leaf_release(i) ==
    /\ ~aborted
    /\ leafs[i].st = "alive"
    /\ leafs' = [leafs EXCEPT ![i].st = "released"]
    /\ last' = Called("leaf_release", TRUE)
    /\ top' = NoTop
    /\ UNCHANGED <<nvars, mvars, pvars, pq, estimated_hits, total_hits, reader_context,
                   channel, queue, receiver, fin_pc, aborted, hist>>

\* The collector goes out of scope outside finish(): its channel, if it has one, is
\* dropped with it, Receiver included, and the messages in it are discarded. The
\* sub-collectors are boxed values that own their Sender and may live on.
collector_drop ==
    /\ CallerFree
    /\ fin_pc' = "dropped"
    /\ channel' = None
    /\ receiver' = FALSE
    /\ queue' = <<>>
    /\ last' = Called("drop", TRUE)
    /\ top' = NoTop
    /\ UNCHANGED <<nvars, mvars, pvars, pq, estimated_hits, total_hits, reader_context,
                   leafs, aborted, hist>>

\* finish(), up to its first recv(): takes the channel out of the collector and drops
\* the collector's own Sender. Without a channel the call panics (debug_assert, or
\* unwrap of None).
finish_begin ==
    /\ CallerFree
    /\ IF channel = None
       THEN /\ aborted' = TRUE
            /\ last' = Called("finish", FALSE)
            /\ UNCHANGED <<channel, fin_pc, hist>>
       ELSE /\ channel' = None
            /\ fin_pc' = "draining"
            /\ last' = Called("finish_begin", TRUE)
            /\ hist' = [hist EXCEPT !.base = <<[pq |-> pq, total_hits |-> total_hits]>>]
            /\ UNCHANGED aborted
    /\ top' = NoTop
    /\ UNCHANGED <<nvars, mvars, pvars, pq, estimated_hits, total_hits, reader_context,
                   queue, receiver, leafs>>

\* finish(): receiver.recv() returns Ok(doc); the loop body folds it into the heap.
finish_recv ==
    /\ fin_pc = "draining"
    /\ ~aborted
    /\ queue /= <<>>
    /\ LET doc == Head(queue)
           r == add_doc(pq, total_hits, estimated_hits, doc)
       IN /\ pq' = r.pq
          /\ total_hits' = r.total_hits
          /\ hist' = [hist EXCEPT !.seen = @ (+) SetToBag({doc.score})]
    /\ queue' = Tail(queue)
    /\ last' = Called("finish_recv", TRUE)
    /\ UNCHANGED <<nvars, mvars, pvars, estimated_hits, reader_context, channel, receiver,
                   leafs, fin_pc, aborted, top>>

\* Mutant of Disconnected: an empty channel counts as closed (try_recv for recv).
Disconnected_when_empty == queue = <<>>

\* Whether recv() reports the channel disconnected: it is empty and no Sender is left.
Disconnected == queue = <<>> /\ Alive = {}

\* finish(): recv() returns Err, the loop ends, the Receiver is dropped, Ok(()).
finish_return ==
    /\ fin_pc = "draining"
    /\ ~aborted
    /\ Disconnected
    /\ fin_pc' = "idle"
    /\ receiver' = FALSE
    /\ last' = Called("finish", TRUE)
    /\ UNCHANGED <<nvars, mvars, pvars, pq, estimated_hits, total_hits, reader_context,
                   channel, queue, leafs, aborted, top, hist>>

\* Mutant of top_docs: the entries are read off the heap without being removed.
top_docs_keeps_heap ==
    /\ CallerFree
    /\ LET size == Min(total_hits, Len(pq))
           r == PopN(pq, size)
       IN /\ pq' = pq
          /\ top' = [total_hits |-> total_hits, score_docs |-> Reverse(r.popped),
                     first |-> ~hist.popped, merged |-> last = Called("finish", TRUE)]
    /\ last' = Called("top_docs", TRUE)
    /\ hist' = [hist EXCEPT !.popped = TRUE]
    /\ UNCHANGED <<nvars, mvars, pvars, estimated_hits, total_hits, reader_context, channel,
                   queue, receiver, leafs, fin_pc, aborted>>

\* Mutant of top_docs: the pop order is returned as it is, without reverse().
top_docs_pop_order ==
    /\ CallerFree
    /\ LET size == Min(total_hits, Len(pq))
           r == PopN(pq, size)
       IN /\ pq' = r.heap
          /\ top' = [total_hits |-> total_hits, score_docs |-> r.popped,
                     first |-> ~hist.popped, merged |-> last = Called("finish", TRUE)]
    /\ last' = Called("top_docs", TRUE)
    /\ hist' = [hist EXCEPT !.popped = TRUE]
    /\ UNCHANGED <<nvars, mvars, pvars, estimated_hits, total_hits, reader_context, channel,
                   queue, receiver, leafs, fin_pc, aborted>>

\* top_docs(). first and merged are history: whether this is the first top_docs call
\* and whether it directly follows a finish() that returned.
top_docs ==
    /\ CallerFree
    /\ LET size == Min(total_hits, Len(pq))
           r == PopN(pq, size)
       IN /\ pq' = r.heap
          /\ top' = [total_hits |-> total_hits, score_docs |-> Reverse(r.popped),
                     first |-> ~hist.popped, merged |-> last = Called("finish", TRUE)]
    /\ last' = Called("top_docs", TRUE)
    /\ hist' = [hist EXCEPT !.popped = TRUE]
    /\ UNCHANGED <<nvars, mvars, pvars, estimated_hits, total_hits, reader_context, channel,
                   queue, receiver, leafs, fin_pc, aborted>>

NextTopDocs ==
    \/ \E s \in Segs : set_next_reader(s)
    \/ \E d \in LocalIds, sc \in 1..MaxScore : collect(d, sc)
    \/ collect_score_err
    \/ \E s \in Segs : leaf_collector(s)
    \/ \E i \in Slots, d \in LocalIds, sc \in 1..MaxScore : leaf_collect(i, d, sc)
    \/ \E i \in Slots : leaf_release(i)
    \/ finish_begin
    \/ finish_recv
    \/ finish_return
    \/ top_docs
    \/ collector_drop

(***************************************************************************)
(*     64-bit arithmetic of values, offsets and lengths (u64, i64)         *)
(***************************************************************************)

\* A 64-bit value is kept as four 16-bit limbs, least significant first, so that
\* sums wrap at 2^64 as the machine's do.
Limb == 65536
NLimbs == 4

\* The 64-bit pattern of an integer n (two's complement when n < 0): `n as u64`.
RECURSIVE Limbs(_, _)
Limbs(n, k) == IF k = 0 THEN <<>> ELSE <<n % Limb>> \o Limbs(n \div Limb, k - 1)

U64(n) == Limbs(n, NLimbs)
I64(n) == Limbs(n, NLimbs)

U64Max == [k \in 1..NLimbs |-> Limb - 1]                        \* u64::max_value()
I64Max == [k \in 1..NLimbs |-> IF k = NLimbs THEN Limb \div 2 - 1 ELSE Limb - 1]
I64Min == [k \in 1..NLimbs |-> IF k = NLimbs THEN Limb \div 2 ELSE 0]

\* a + b on 64 bits: the wrapped sum and the carry out of bit 63.
RECURSIVE AddLimbs(_, _, _, _)
AddLimbs(a, b, k, carry) ==
    IF k > NLimbs THEN [value |-> <<>>, carry |-> carry = 1]
    ELSE LET t == a[k] + b[k] + carry
             rest == AddLimbs(a, b, k + 1, t \div Limb)
         IN [value |-> <<t % Limb>> \o rest.value, carry |-> rest.carry]

AddU64(a, b) == AddLimbs(a, b, 1, 0)

\* a < b as unsigned numbers.
RECURSIVE LtLimbs(_, _, _)
LtLimbs(a, b, k) ==
    IF k = 0 THEN FALSE
    ELSE IF a[k] /= b[k] THEN a[k] < b[k]
    ELSE LtLimbs(a, b, k - 1)

LtU64(a, b) == LtLimbs(a, b, NLimbs)

\* a - b for b <= a.
RECURSIVE SubLimbs(_, _, _, _)
SubLimbs(a, b, k, borrow) ==
    IF k > NLimbs THEN <<>>
    ELSE LET t == a[k] - b[k] - borrow IN
         <<t % Limb>> \o SubLimbs(a, b, k + 1, IF t < 0 THEN 1 ELSE 0)

SubU64(a, b) == SubLimbs(a, b, 1, 0)

\* i64: the sign bit, signed comparison, and a + b with its overflow flag.
NegI64(a) == a[NLimbs] >= Limb \div 2
LtI64(a, b) == IF NegI64(a) /= NegI64(b) THEN NegI64(a) ELSE LtU64(a, b)
AddI64(a, b) ==
    LET sum == AddU64(a, b).value IN
    [value |-> sum,
     overflow |-> NegI64(a) = NegI64(b) /\ NegI64(sum) /= NegI64(a)]

\* The integer a 64-bit pattern stands for, when it is below 2^31.
Small(a) == a[3] = 0 /\ a[4] = 0 /\ a[2] < Limb \div 2
ToInt(a) == a[1] + Limb * a[2]

\* The two builds of the crate: with overflow checks and debug assertions ("debug":
\* an overflowing + panics) and without them ("release": it wraps).
Builds == {"debug", "release"}

\* The outcomes of a call in the two builds, given its outcome with overflow checks
\* and its outcome without: they differ only where a check panics.
InBuilds(checked, unchecked) ==
    IF checked.result = "panic" THEN {checked, unchecked} ELSE {checked}

(***************************************************************************)
(*              Lucene53NormsConsumer  (norms_consumer.rs)                 *)
(***************************************************************************)

\* Bounds of the norms model.
MaxMaxDoc == 2      \* max_doc ranges over 1..MaxMaxDoc
MaxFields == 2      \* add_norms_field calls in one run

\* Field numbers (one needs a two-byte vint) and the values a sequence may yield.
FieldNumbers == {1, 130}
NormValues == {0 - 1, 5, 200}

\* The length of the index header that new() writes to the data output, which
\* data.file_pointer() counts.
DataHeaderLen == 40

\* codec_util::write_footer writes a footer (magic, algorithm id, checksum); it is
\* kept as one mark that no byte equals.
FooterMark == 256

\* Item of the value sequence: Ok(Numeric) or Err.
OkItem(v) == [ok |-> TRUE, v |-> v]
ErrItem == [ok |-> FALSE, v |-> 0]
Items == {OkItem(v) : v \in NormValues} \cup {ErrItem}

RECURSIVE SeqsUpTo(_, _)
SeqsUpTo(S, n) ==
    IF n = 0 THEN {<<>>}
    ELSE LET shorter == SeqsUpTo(S, n - 1) IN
         shorter \cup {Append(q, x) : q \in {r \in shorter : Len(r) = n - 1}, x \in S}

RECURSIVE Pow2(_)
Pow2(n) == IF n = 0 THEN 1 ELSE 2 * Pow2(n - 1)

\* DataOutput::write_vint(i32): seven bits a byte, low bits first, the high bit set on
\* all but the last byte; a negative number is its 32-bit two's complement (5 bytes).
RECURSIVE VIntBits(_, _)
VIntBits(i, bits) ==
    IF bits <= 7 THEN <<i % Pow2(bits)>>
    ELSE IF i >= 0 /\ i < 128 THEN <<i>>
    ELSE <<128 + (i % 128)>> \o VIntBits(i \div 128, bits - 7)

VInt(i) == VIntBits(i, 32)

\* The n low bytes of the two's complement of v, most significant first:
\* DataOutput::write_byte / write_short / write_int / write_long of the value cast
\* to that width.
RECURSIVE BytesBE(_, _)
BytesBE(v, n) == IF n = 0 THEN <<>> ELSE Append(BytesBE(v \div 256, n - 1), v % 256)

\* The two outputs and the order of the writes to them (wlog is history).
Ev(file, op, v) == [file |-> file, op |-> op, v |-> v]
meta_write_vint(w, i) ==
    [w EXCEPT !.meta = @ \o VInt(i), !.wlog = Append(@, Ev("meta", "vint", i))]
meta_write_byte(w, b) ==
    [w EXCEPT !.meta = Append(@, b % 256), !.wlog = Append(@, Ev("meta", "byte", b))]
meta_write_long(w, v) ==
    [w EXCEPT !.meta = @ \o BytesBE(v, 8), !.wlog = Append(@, Ev("meta", "long", v))]
data_write(w, len, v) ==
    [w EXCEPT !.data = @ \o BytesBE(v, len), !.wlog = Append(@, Ev("data", "value", v))]
write_footer(w, file) ==
    [w EXCEPT ![file] = Append(@, FooterMark),
              !.wlog = Append(@, Ev(file, "footer", 0))]

\* self.data.file_pointer()
data_file_pointer(w) == DataHeaderLen + Len(w.data)

\* add_constant with the value also written to data.
add_constant_into_data(w, constant) ==
    data_write(meta_write_long(meta_write_byte(w, 0), constant), 8, constant)

\* add_constant
add_constant(w, constant) == meta_write_long(meta_write_byte(w, 0), constant)

\* The loop of add_byte: one value per item, up to the first item that is not Some(Ok).
RECURSIVE write_values(_, _, _)
write_values(w, len, items) ==
    IF items = <<>> \/ ~Head(items).ok THEN w
    ELSE write_values(data_write(w, len, Head(items).v), len, Tail(items))

\* min_value >= lo && max_value <= hi, on i64.
Covers(lo, hi, min_value, max_value) ==
    ~LtI64(min_value, I64(lo)) /\ ~LtI64(I64(hi), max_value)

\* The width chosen with the first test against 0..255 instead of -128..127.
byte_width_unsigned(min_value, max_value) ==
    IF Covers(0, 255, min_value, max_value) THEN 1
    ELSE IF Covers(0 - 32768, 32767, min_value, max_value) THEN 2
    ELSE IF Covers(0 - 2147483647 - 1, 2147483647, min_value, max_value) THEN 4
    ELSE 8

\* The width add_byte chooses for the i64 values min_value and max_value.
byte_width(min_value, max_value) ==
    IF Covers(0 - 128, 127, min_value, max_value) THEN 1
    ELSE IF Covers(0 - 32768, 32767, min_value, max_value) THEN 2
    ELSE IF Covers(0 - 2147483647 - 1, 2147483647, min_value, max_value) THEN 4
    ELSE 8

\* add_byte with the data offset taken after the values are written.
add_byte_offset_after(w, min_value, max_value, items) ==
    LET len == byte_width(I64(min_value), I64(max_value))
        w1 == meta_write_byte(w, len)
        w2 == write_values(w1, len, items)
    IN meta_write_long(w2, data_file_pointer(w2))

\* add_byte
add_byte(w, min_value, max_value, items) ==
    LET len == byte_width(I64(min_value), I64(max_value))
        w1 == meta_write_byte(w, len)
        w2 == meta_write_long(w1, data_file_pointer(w1))
    IN write_values(w2, len, items)

\* The first pass of add_norms_field: the index of the first Err item, or 0.
FirstErr(items) ==
    IF \E i \in 1..Len(items) : ~items[i].ok
    THEN CHOOSE i \in 1..Len(items) : ~items[i].ok /\ \A j \in 1..(i - 1) : items[j].ok
    ELSE 0

\* add_norms_field(field_info, values): the outcome and the outputs after the call.
add_norms_field_impl(w, maxdoc, number, items) ==
    LET w1 == meta_write_vint(w, number)
        vals == {items[i].v : i \in 1..Len(items)}
    IN IF FirstErr(items) /= 0 THEN [result |-> "value_err", w |-> w1]
       ELSE IF Len(items) /= maxdoc THEN [result |-> "count_mismatch", w |-> w1]
       ELSE LET min_value == SetMin(vals)
                max_value == SetMax(vals)
            IN IF min_value = max_value
               THEN [result |-> "ok", w |-> add_constant(w1, min_value)]
               ELSE [result |-> "ok", w |-> add_byte(w1, min_value, max_value, items)]

World == [meta |-> meta, data |-> data, wlog |-> nhist.wlog]

InitNorms ==
    /\ meta = <<>>
    /\ data = <<>>
    /\ max_doc \in 1..MaxMaxDoc
    /\ nstate = "live"
    /\ nlast = [op |-> "new", result |-> "ok", number |-> 0, items |-> <<>>,
                meta |-> <<>>, data |-> <<>>]
    /\ nhist = [wlog |-> <<>>, records |-> <<>>, ncalls |-> 0]

\* The record a successful call is to leave in meta: field number, marker, payload.
ExpectedRecord(number, items, offset) ==
    LET vals == {items[i].v : i \in 1..Len(items)} IN
    IF Cardinality(vals) = 1
    THEN [number |-> number, marker |-> 0, payload |-> BytesBE(SetMin(vals), 8)]
    ELSE [number |-> number, marker |-> byte_width(I64(SetMin(vals)), I64(SetMax(vals))),
          payload |-> BytesBE(offset, 8)]

\* NormsConsumer::add_norms_field
add_norms_field(number, items) ==
    /\ nstate = "live"
    /\ nhist.ncalls < MaxFields
    /\ \A i \in 1..Len(nhist.wlog) :
         nhist.wlog[i].op = "vint" => nhist.wlog[i].v /= number
    /\ LET r == add_norms_field_impl(World, max_doc, number, items) IN
       /\ meta' = r.w.meta
       /\ data' = r.w.data
       /\ nlast' = [op |-> "add_norms_field", result |-> r.result, number |-> number,
                    items |-> items,
                    meta |-> meta, data |-> data]
       /\ nhist' = [wlog |-> r.w.wlog,
                    records |-> IF r.result = "ok"
                                THEN Append(nhist.records,
                                       ExpectedRecord(number, items, DataHeaderLen + Len(data)))
                                ELSE nhist.records,
                    ncalls |-> nhist.ncalls + 1]
    /\ UNCHANGED <<cvars, mvars, pvars, max_doc, nstate>>

\* Mutant of drop_impl: the data output gets no footer.
drop_impl_meta_only(w) == write_footer(meta_write_vint(w, 0 - 1), "meta")

\* Drop for Lucene53NormsConsumer
drop_impl(w) == write_footer(write_footer(meta_write_vint(w, 0 - 1), "meta"), "data")

norms_drop ==
    /\ nstate = "live"
    /\ LET w == drop_impl(World) IN
       /\ meta' = w.meta
       /\ data' = w.data
       /\ nhist' = [nhist EXCEPT !.wlog = w.wlog]
    /\ nstate' = "dropped"
    /\ nlast' = [op |-> "drop", result |-> "ok", number |-> 0, items |-> <<>>,
                 meta |-> meta,
                 data |-> data]
    /\ UNCHANGED <<cvars, mvars, pvars, max_doc>>

NextNorms ==
    \/ \E number \in FieldNumbers, items \in SeqsUpTo(Items, MaxMaxDoc + 1) :
         add_norms_field(number, items)
    \/ norms_drop

\* ---- The width selection of add_byte on its own, over the whole range of i64.

\* Minimum and maximum values tried: around the ends of the i8, i16 and i32 ranges,
\* and the ends of i64.
WidthValues ==
    {I64(n) : n \in {0 - 129, 0 - 128, 0 - 1, 0, 5, 127, 128, 200, 255, 256,
                     0 - 32769, 0 - 32768, 32767, 32768,
                     0 - 2147483647 - 1, 2147483647}}
    \cup {AddU64(I64(2147483647), I64(1)).value,
          SubU64(I64(0 - 2147483647 - 1), I64(1)),
          I64Min, I64Max}

InitWidth ==
    /\ meta = <<>>
    /\ data = <<>>
    /\ max_doc \in 1..MaxMaxDoc
    /\ nstate = "live"
    /\ nlast = [op |-> "new", min_value |-> I64(0), max_value |-> I64(0), len |-> 0]
    /\ nhist = [wlog |-> <<>>, records |-> <<>>, ncalls |-> 0]

\* The first statement of add_byte, for a field whose values are not all equal.
select_width(min_value, max_value) ==
    /\ LtI64(min_value, max_value)
    /\ nlast' = [op |-> "add_byte", min_value |-> min_value, max_value |-> max_value,
                 len |-> byte_width(min_value, max_value)]
    /\ UNCHANGED <<cvars, mvars, pvars, meta, data, max_doc, nstate, nhist>>

NextWidth == \E min_value \in WidthValues, max_value \in WidthValues :
                 select_width(min_value, max_value)

(***************************************************************************)
(*          ReadOnlySource, MmapIndexInput  (mmap_index_input.rs)          *)
(***************************************************************************)

\* Bounds of the mapped-input model.
MapLen == 4         \* bytes in the mapped file
MaxInputs == 2      \* MmapIndexInput values alive in one run
MaxRead == 2        \* buffer sizes of read() are 0..MaxRead

\* The mapped file: MapLen bytes, all different.
MapBytes == [i \in 1..MapLen |-> 10 + i]

\* Arguments tried for offsets, lengths and positions: in and out of bounds.
Args == (0 - 1)..(MapLen + 1)

\* A raw slice (pointer, length); the pointer counts bytes from the mapping's start.
RawParts(ptr, len) == [ptr |-> ptr, len |-> len]

\* The bytes a raw slice points to.
Deref(raw) == [k \in 1..raw.len |-> map[raw.ptr + k]]

\* ReadOnlySource::range on the source made from the whole mapping: the sources an
\* input can be built from.
Sources == {[offset |-> o, len |-> l] : o \in 0..MapLen, l \in 0..MapLen} \cap
           {src \in [offset : 0..MapLen, len : 0..MapLen] : ~(MapLen < src.offset + src.len)}

\* impl From<ReadOnlySource> for MmapIndexInput. view is history: the bytes the input
\* stands for.
FromSource(source) ==
    [source |-> source,
     slice |-> RawParts(source.offset, source.len),
     cursor |-> RawParts(source.offset, source.len),
     start |-> 0, end |-> source.len, position |-> 0,
     view |-> SubSeq(map, source.offset + 1, source.offset + source.len)]

\* IndexInput::len
input_len(inp) == inp.end - inp.start

\* slice_impl with the new start counted from the source's start instead of from the
\* parent's start.
slice_impl_offset_only(inp, offset, length) ==
    LET total_len == input_len(inp) IN
    IF offset < 0 \/ length < 0 \/ offset + length > total_len THEN <<>>
    ELSE LET slice_ptr == inp.source.offset
             start == offset
             cursor == RawParts(slice_ptr + start, length)
         IN <<[source |-> inp.source, slice |-> cursor, cursor |-> cursor,
               start |-> start, end |-> start + length, position |-> 0,
               view |-> SubSeq(inp.view, offset + 1, offset + length)]>>

\* MmapIndexInput::slice_impl: <<>> for the IllegalArgument error, else the new input.
slice_impl(inp, offset, length) ==
    LET total_len == input_len(inp) IN
    IF offset < 0 \/ length < 0 \/ offset + length > total_len THEN <<>>
    ELSE LET slice_ptr == inp.source.offset
             start == inp.start + offset
             cursor == RawParts(slice_ptr + start, length)
         IN <<[source |-> inp.source, slice |-> cursor, cursor |-> cursor,
               start |-> start, end |-> start + length, position |-> 0,
               view |-> SubSeq(inp.view, offset + 1, offset + length)]>>

\* The last call on an input: its arguments, the position before it, its outcome
\* ("ok", "err" or "panic") and what it returned.
MCall(op, i, a, b, pos, result, out) ==
    [op |-> op, i |-> i, a |-> a, b |-> b, pos |-> pos, result |-> result, out |-> out]

Running == mlast.result \notin {"panic", "outside"}

\* The inputs a run may start from: one made from a source, or a slice of one.
FirstInputs ==
    LET roots == {FromSource(src) : src \in Sources} IN
    roots \cup {r[1] : r \in {slice_impl(inp, o, l) : inp \in roots,
                                                      o \in 0..MapLen, l \in 0..MapLen}
                                \ {<<>>}}

InitMmap ==
    /\ map = MapBytes
    /\ sources = <<>>
    /\ \E inp \in FirstInputs : inputs = <<inp>>
    /\ mlast = MCall("new", 1, 0, 0, 0, "ok", <<>>)

\* IndexInput::slice on input i
m_slice(i, offset, length) ==
    /\ Running
    /\ i \in 1..Len(inputs)
    /\ Len(inputs) < MaxInputs
    /\ LET r == slice_impl(inputs[i], offset, length) IN
       /\ inputs' = inputs \o r
       /\ mlast' = MCall("slice", i, offset, length, inputs[i].position,
                         IF r = <<>> THEN "err" ELSE "ok", <<>>)
    /\ UNCHANGED <<cvars, nvars, pvars, map, sources>>

\* clone with the new cursor rewound to the start.
m_clone_rewound(i) ==
    /\ Running
    /\ i \in 1..Len(inputs)
    /\ Len(inputs) < MaxInputs
    /\ inputs' = Append(inputs, [inputs[i] EXCEPT !.position = 0])
    /\ mlast' = MCall("clone", i, 0, 0, inputs[i].position, "ok", <<>>)
    /\ UNCHANGED <<cvars, nvars, pvars, map, sources>>

\* IndexInput::clone on input i
m_clone(i) ==
    /\ Running
    /\ i \in 1..Len(inputs)
    /\ Len(inputs) < MaxInputs
    /\ inputs' = Append(inputs, inputs[i])
    /\ mlast' = MCall("clone", i, 0, 0, inputs[i].position, "ok", <<>>)
    /\ UNCHANGED <<cvars, nvars, pvars, map, sources>>

\* IndexInput::seek on input i. Out of range, a build with debug assertions panics at
\* debug_assert!(false, msg) and a build without them returns IllegalArgument.
m_seek(i, pos) ==
    /\ Running
    /\ i \in 1..Len(inputs)
    /\ IF pos < 0 \/ pos > input_len(inputs[i])
       THEN /\ \E outcome \in {"panic", "err"} :
                 mlast' = MCall("seek", i, pos, 0, inputs[i].position, outcome, <<>>)
            /\ UNCHANGED inputs
       ELSE /\ inputs' = [inputs EXCEPT ![i].position = pos]
            /\ mlast' = MCall("seek", i, pos, 0, inputs[i].position, "ok", <<>>)
    /\ UNCHANGED <<cvars, nvars, pvars, map, sources>>

\* The bytes Read::read copies into a buffer of n bytes.
read_impl(inp, n) ==
    LET rest == RawParts(inp.cursor.ptr + inp.position, inp.cursor.len - inp.position)
        count == Min(n, rest.len)
    IN Deref(RawParts(rest.ptr, count))

\* Read::read on input i with a buffer of n bytes
m_read(i, n) ==
    /\ Running
    /\ i \in 1..Len(inputs)
    /\ LET out == read_impl(inputs[i], n) IN
       /\ inputs' = [inputs EXCEPT ![i].position = @ + Len(out)]
       /\ mlast' = MCall("read", i, n, 0, inputs[i].position, "ok", out)
    /\ UNCHANGED <<cvars, nvars, pvars, map, sources>>

NextMmap ==
    \/ \E i \in 1..MaxInputs, offset \in Args, length \in Args : m_slice(i, offset, length)
    \/ \E i \in 1..MaxInputs : m_clone(i)
    \/ \E i \in 1..MaxInputs, pos \in Args : m_seek(i, pos)
    \/ \E i \in 1..MaxInputs, n \in 0..MaxRead : m_read(i, n)

(***************************************************************************)
(*                 ReadOnlySource  (mmap_index_input.rs)                   *)
(***************************************************************************)

MaxSources == 2     \* ReadOnlySource values alive in one run

\* A ReadOnlySource over the one mapping: offset and len are u64.
Source(offset, len) == [offset |-> offset, len |-> len]

\* A call's outcome: "ok" with the sources returned, "err" for IllegalArgument, or
\* "panic".
Outcome(result, out) == [result |-> result, out |-> out]

\* impl From<Arc<Mmap>> for ReadOnlySource
FromMmap == Source(U64(0), U64(Len(map)))

\* ReadOnlySource::range
range(self, offset, len, build) ==
    LET sum == AddU64(offset, len) IN
    IF sum.carry /\ build = "debug" THEN Outcome("panic", <<>>)
    ELSE IF LtU64(self.len, sum.value) THEN Outcome("err", <<>>)
    ELSE LET off == AddU64(self.offset, offset) IN
         IF off.carry /\ build = "debug" THEN Outcome("panic", <<>>)
         ELSE Outcome("ok", <<Source(off.value, len)>>)

\* ReadOnlySource::slice
source_slice(self, from_offset, to_offset, build) ==
    IF LtU64(to_offset, from_offset) THEN Outcome("err", <<>>)
    ELSE range(self, from_offset, SubU64(to_offset, from_offset), build)

\* ReadOnlySource::slice_from
slice_from(self, from_offset, build) == source_slice(self, from_offset, self.len, build)

\* ReadOnlySource::slice_to
slice_to(self, to_offset, build) == source_slice(self, U64(0), to_offset, build)

\* split with its right half taken from the start of the source.
split_right_from_start(self, addr, build) ==
    LET left == source_slice(self, U64(0), addr, build) IN
    IF left.result /= "ok" THEN left
    ELSE LET right == source_slice(self, U64(0), SubU64(self.len, addr), build) IN
         IF right.result /= "ok" THEN right
         ELSE Outcome("ok", left.out \o right.out)

\* ReadOnlySource::split
split(self, addr, build) ==
    LET left == source_slice(self, U64(0), addr, build) IN
    IF left.result /= "ok" THEN left
    ELSE LET right == slice_from(self, addr, build) IN
         IF right.result /= "ok" THEN right
         ELSE Outcome("ok", left.out \o right.out)

\* A source lies in the mapping: as_slice can index map[offset..offset + len].
InMapping(src) ==
    LET stop == AddU64(src.offset, src.len) IN
    /\ ~stop.carry /\ Small(stop.value) /\ ToInt(stop.value) <= Len(map)

\* ReadOnlySource::as_slice, for a source that lies in the mapping.
as_slice(src) == SubSeq(map, ToInt(src.offset) + 1, ToInt(src.offset) + ToInt(src.len))

\* MmapIndexInput::slice_impl with its i64 arguments at their width: the check of
\* lines 192-198, then, when it lets the call through, the construction. A call let
\* through by a wrapped sum builds its cursor with slice::from_raw_parts beyond the
\* source ("outside"); no input is kept for it.
slice_impl_i64(inp, offset, length, build) ==
    LET total_len == I64(input_len(inp)) IN
    IF LtI64(offset, I64(0)) \/ LtI64(length, I64(0)) THEN Outcome("err", <<>>)
    ELSE LET sum == AddI64(offset, length) IN
         IF sum.overflow /\ build = "debug" THEN Outcome("panic", <<>>)
         ELSE IF LtI64(total_len, sum.value) THEN Outcome("err", <<>>)
         ELSE IF Small(offset) /\ Small(length)
              THEN Outcome("ok", slice_impl(inp, ToInt(offset), ToInt(length)))
              ELSE Outcome("outside", <<>>)

\* Arguments tried: in and out of bounds, and the ends of the types' ranges.
ArgsU64 == {U64(n) : n \in {0, 1, 2, MapLen, MapLen + 1}} \cup {U64Max}
ArgsI64 == {I64(n) : n \in {0 - 1, 0, 1, MapLen, MapLen + 1}} \cup {I64Max, I64Min}

InitSource ==
    /\ map = MapBytes
    /\ sources = <<FromMmap>>
    /\ inputs = <<FromSource([offset |-> 0, len |-> Len(map)])>>
    /\ mlast = MCall("new", 1, U64(0), U64(0), 0, "ok", <<>>)

\* A call on source i that returns sources, with the outcomes rs it has in the two
\* builds: the caller keeps the sources while there is room for them and drops them
\* otherwise.
SourceCall(op, i, a, b, rs) ==
    /\ Running
    /\ i \in 1..Len(sources)
    /\ \E r \in rs :
         /\ sources' = IF Len(sources) + Len(r.out) <= MaxSources THEN sources \o r.out
                       ELSE sources
         /\ mlast' = MCall(op, i, a, b, 0, r.result, r.out)
    /\ UNCHANGED <<cvars, nvars, pvars, map, inputs>>

s_range(i, offset, len) ==
    SourceCall("range", i, offset, len,
               InBuilds(range(sources[i], offset, len, "debug"),
                        range(sources[i], offset, len, "release")))

s_slice(i, from_offset, to_offset) ==
    SourceCall("slice", i, from_offset, to_offset,
               InBuilds(source_slice(sources[i], from_offset, to_offset, "debug"),
                        source_slice(sources[i], from_offset, to_offset, "release")))

s_slice_from(i, from_offset) ==
    SourceCall("slice_from", i, from_offset, U64(0),
               InBuilds(slice_from(sources[i], from_offset, "debug"),
                        slice_from(sources[i], from_offset, "release")))

s_slice_to(i, to_offset) ==
    SourceCall("slice_to", i, to_offset, U64(0),
               InBuilds(slice_to(sources[i], to_offset, "debug"),
                        slice_to(sources[i], to_offset, "release")))

s_split(i, addr) ==
    SourceCall("split", i, addr, U64(0),
               InBuilds(split(sources[i], addr, "debug"),
                        split(sources[i], addr, "release")))

\* IndexInput::slice / random_access_slice on input i, with i64 arguments; the
\* caller drops the input it gets.
s_input_slice(i, offset, length) ==
    /\ Running
    /\ i \in 1..Len(inputs)
    /\ \E r \in InBuilds(slice_impl_i64(inputs[i], offset, length, "debug"),
                       slice_impl_i64(inputs[i], offset, length, "release")) :
         mlast' = MCall("input_slice", i, offset, length, inputs[i].position,
                        r.result, r.out)
    /\ UNCHANGED <<cvars, nvars, pvars, map, sources, inputs>>

NextSource ==
    \/ \E i \in 1..MaxSources, offset \in ArgsU64, len \in ArgsU64 : s_range(i, offset, len)
    \/ \E i \in 1..MaxSources, from_offset \in ArgsU64, to_offset \in ArgsU64 :
         s_slice(i, from_offset, to_offset)
    \/ \E i \in 1..MaxSources, from_offset \in ArgsU64 : s_slice_from(i, from_offset)
    \/ \E i \in 1..MaxSources, to_offset \in ArgsU64 : s_slice_to(i, to_offset)
    \/ \E i \in 1..MaxSources, addr \in ArgsU64 : s_split(i, addr)
    \/ \E offset \in ArgsI64, length \in ArgsI64 : s_input_slice(1, offset, length)

(***************************************************************************)
(*         RandomAccessInput for MmapIndexInput  (mmap_index_input.rs)     *)
(***************************************************************************)

\* A fixed-width integer (u8, i16, i32, i64) is kept as its bytes, least significant
\* first, so that casts, masks, shifts and ors act on its bit pattern.
RECURSIVE BitOr(_, _, _)
BitOr(a, b, bits) ==
    IF bits = 0 THEN 0
    ELSE (IF a % 2 = 1 \/ b % 2 = 1 THEN 1 ELSE 0) + 2 * BitOr(a \div 2, b \div 2, bits - 1)

RECURSIVE BitAnd(_, _, _)
BitAnd(a, b, bits) ==
    IF bits = 0 THEN 0
    ELSE (IF a % 2 = 1 /\ b % 2 = 1 THEN 1 ELSE 0) + 2 * BitAnd(a \div 2, b \div 2, bits - 1)

\* iN::from(x) for a wider iN: zero extension of an unsigned x, sign extension of a
\* signed one.
ZeroExtend(x, n) == [k \in 1..n |-> IF k <= Len(x) THEN x[k] ELSE 0]
SignExtend(x, n) ==
    [k \in 1..n |-> IF k <= Len(x) THEN x[k]
                    ELSE IF x[Len(x)] >= 128 THEN 255 ELSE 0]

\* x & y; x | y; x << bits for a whole number of bytes (bits shifted out at the top
\* are lost).
ByteAnd == [a \in 0..255 |-> [b \in 0..255 |-> BitAnd(a, b, 8)]]
ByteOr == [a \in 0..255 |-> [b \in 0..255 |-> BitOr(a, b, 8)]]
WordAnd(x, y) == [k \in 1..Len(x) |-> ByteAnd[x[k]][y[k]]]
WordOr(x, y) == [k \in 1..Len(x) |-> ByteOr[x[k]][y[k]]]
Shl(x, bits) == [k \in 1..Len(x) |-> IF k > bits \div 8 THEN x[k - bits \div 8] ELSE 0]

\* 0xff at width n, and 0xffff_ffff as an i64.
Mask8(n) == [k \in 1..n |-> IF k = 1 THEN 255 ELSE 0]
Mask32 == [k \in 1..8 |-> IF k <= 4 THEN 255 ELSE 0]

\* Result<iN>: Ok(v), Err(IllegalArgument) or a panic.
Ok(v) == [result |-> "ok", v |-> v]
Err == [result |-> "err", v |-> <<>>]
Panic == [result |-> "panic", v |-> <<>>]

\* pos + k for an i64 pos: it panics on overflow in a build with overflow checks.
PosPlus(pos, k, build) ==
    LET sum == AddI64(pos, I64(k)) IN
    IF sum.overflow /\ build = "debug" THEN <<>> ELSE <<sum.value>>

\* RandomAccessInput::read_byte
read_byte(inp, pos) ==
    IF NegI64(pos) \/ ~LtU64(pos, U64(input_len(inp))) THEN Err
    ELSE Ok(<<map[inp.slice.ptr + ToInt(pos) + 1]>>)

\* A read_byte at pos + k, as the operand of a wider read.
read_byte_at(inp, pos, k, build) ==
    LET p == PosPlus(pos, k, build) IN
    IF p = <<>> THEN Panic ELSE read_byte(inp, p[1])

\* RandomAccessInput::read_short. The operands are read left to right and the first
\* failure returns (the ? operator), so pos + 1 is only computed after read_byte(pos)
\* succeeded.
read_short(inp, pos, build) ==
    LET b0 == read_byte(inp, pos) IN
    IF b0.result /= "ok" THEN b0
    ELSE LET b1 == read_byte_at(inp, pos, 1, build) IN
         IF b1.result /= "ok" THEN b1
         ELSE Ok(WordOr(Shl(WordAnd(ZeroExtend(b0.v, 2), Mask8(2)), 8),
                        WordAnd(ZeroExtend(b1.v, 2), Mask8(2))))

\* read_long without the & 0xffff_ffff on its low half.
read_long_unmasked(hi, lo) == WordOr(Shl(SignExtend(hi, 8), 32), SignExtend(lo, 8))

\* The value read_long builds from its two ints.
read_long_value(hi, lo) ==
    WordOr(Shl(SignExtend(hi, 8), 32), WordAnd(SignExtend(lo, 8), Mask32))

\* RandomAccessInput::read_int
read_int(inp, pos, build) ==
    LET b0 == read_byte(inp, pos) IN
    IF b0.result /= "ok" THEN b0
    ELSE LET b1 == read_byte_at(inp, pos, 1, build) IN
         IF b1.result /= "ok" THEN b1
         ELSE LET b2 == read_byte_at(inp, pos, 2, build) IN
              IF b2.result /= "ok" THEN b2
              ELSE LET b3 == read_byte_at(inp, pos, 3, build) IN
                   IF b3.result /= "ok" THEN b3
                   ELSE Ok(WordOr(WordOr(WordOr(
                            Shl(WordAnd(ZeroExtend(b0.v, 4), Mask8(4)), 24),
                            Shl(WordAnd(ZeroExtend(b1.v, 4), Mask8(4)), 16)),
                            Shl(WordAnd(ZeroExtend(b2.v, 4), Mask8(4)), 8)),
                            WordAnd(ZeroExtend(b3.v, 4), Mask8(4))))

\* RandomAccessInput::read_long
read_long(inp, pos, build) ==
    LET hi == read_int(inp, pos, build) IN
    IF hi.result /= "ok" THEN hi
    ELSE LET p == PosPlus(pos, 4, build) IN
         IF p = <<>> THEN Panic
         ELSE LET lo == read_int(inp, p[1], build) IN
              IF lo.result /= "ok" THEN lo
              ELSE Ok(read_long_value(hi.v, lo.v))

\* The file of tests::test_mmap_random_access_input: 'a', 0x7F as a short, 567_890 as
\* a long, 1_234_567 as an int, 'b'; and a file with bytes of 128 and above.
TestFile == <<97, 0, 127, 0, 0, 0, 0, 0, 8, 170, 82, 0, 18, 214, 135, 98>>
HighFile == <<255, 128, 1, 254, 200, 0, 129, 127, 255, 3, 128, 64, 0, 250, 7, 131>>
RandomFiles == {TestFile, HighFile}

\* Offsets and lengths of the random-access slices taken, and the positions read:
\* every position of the file, one before, two beyond, and the ends of i64.
SliceOffsets == {1, 3}
SliceLengths == {8, 15}
Positions == {I64(n) : n \in (0 - 1)..(Len(TestFile) + 1)} \cup {I64Max, I64Min}

InitRandom ==
    /\ map \in RandomFiles
    /\ sources = <<>>
    /\ \E p \in {0, 2} :
         inputs = <<[FromSource([offset |-> 0, len |-> Len(map)]) EXCEPT !.position = p]>>
    /\ mlast = MCall("new", 1, 0, 0, 0, "ok", <<>>)

\* A random-access read on input i at pos: &self, so no input changes.
RandomRead(op, i, pos, rs) ==
    /\ Running
    /\ i \in 1..Len(inputs)
    /\ \E r \in rs : mlast' = MCall(op, i, pos, 0, inputs[i].position, r.result, r.v)
    /\ UNCHANGED <<cvars, nvars, pvars, map, sources, inputs>>

ra_read_byte(i, pos) == RandomRead("read_byte", i, pos, {read_byte(inputs[i], pos)})

ra_read_short(i, pos) ==
    RandomRead("read_short", i, pos, InBuilds(read_short(inputs[i], pos, "debug"),
                        read_short(inputs[i], pos, "release")))

ra_read_int(i, pos) ==
    RandomRead("read_int", i, pos, InBuilds(read_int(inputs[i], pos, "debug"),
                        read_int(inputs[i], pos, "release")))

ra_read_long(i, pos) ==
    RandomRead("read_long", i, pos, InBuilds(read_long(inputs[i], pos, "debug"),
                        read_long(inputs[i], pos, "release")))

\* IndexInput::random_access_slice on input i
ra_slice(i, offset, length) == m_slice(i, offset, length)

NextRandom ==
    \/ \E i \in 1..MaxInputs, pos \in Positions : ra_read_byte(i, pos)
    \/ \E i \in 1..MaxInputs, pos \in Positions : ra_read_short(i, pos)
    \/ \E i \in 1..MaxInputs, pos \in Positions : ra_read_int(i, pos)
    \/ \E i \in 1..MaxInputs, pos \in Positions : ra_read_long(i, pos)
    \/ \E i \in 1..MaxInputs, offset \in SliceOffsets, length \in SliceLengths :
         ra_slice(i, offset, length)

(***************************************************************************)
(*          EmptyPostingIterator  (posting_iterator.rs:67-118)             *)
(***************************************************************************)

\* Bounds of the iterator model.
MaxCalls == 3       \* calls in one run
MaxIters == 2       \* iterators alive at once (the first and its clones)

\* core::search::NO_MORE_DOCS: the sentinel document id, the largest i32.
NO_MORE_DOCS == 2147483647

\* The targets handed to advance.
Targets == {0 - 1, 0, 7, NO_MORE_DOCS}

\* EmptyPostingIterator::default()
Default == [doc_id |-> 0 - 1]

\* A &mut self method gives the iterator it leaves and the value it returns; a
\* &self method gives the value only.
doc_id(self) == self.doc_id

\* Mutant of next: the sentinel is returned but not stored.
next_without_store(self) == [self |-> self, ret |-> Ok(NO_MORE_DOCS)]

next(self) == [self |-> [self EXCEPT !.doc_id = NO_MORE_DOCS], ret |-> Ok(NO_MORE_DOCS)]

advance(self, target) ==
    [self |-> [self EXCEPT !.doc_id = NO_MORE_DOCS], ret |-> Ok(NO_MORE_DOCS)]

cost(self) == 0

freq(self) == Ok(0)

next_position(self) == [self |-> self, ret |-> Ok(0 - 1)]

start_offset(self) == Ok(0 - 1)

end_offset(self) == Ok(0 - 1)

\* Payload::new(): no bytes.
payload(self) == Ok(<<>>)

\* #[derive(Clone)]
empty_clone(self) == [doc_id |-> self.doc_id]

InitEmpty ==
    /\ iters = <<Default>>
    /\ plast = [op |-> "default", i |-> 1, arg |-> None, ret |-> None]
    /\ pcalls = <<>>

\* One call of op on iterator i, leaving it as `self` and returning ret.
EmptyCall(op, i, arg, self, ret) ==
    /\ Len(pcalls) < MaxCalls
    /\ i \in DOMAIN iters
    /\ iters' = [iters EXCEPT ![i] = self]
    /\ plast' = [op |-> op, i |-> i, arg |-> arg, ret |-> ret]
    /\ pcalls' = Append(pcalls, [op |-> op, i |-> i])
    /\ UNCHANGED <<cvars, nvars, mvars>>

e_doc_id(i) == EmptyCall("doc_id", i, None, iters[i], doc_id(iters[i]))

e_next(i) ==
    LET r == next(iters[i]) IN EmptyCall("next", i, None, r.self, r.ret)

e_advance(i, target) ==
    LET r == advance(iters[i], target) IN EmptyCall("advance", i, target, r.self, r.ret)

e_cost(i) == EmptyCall("cost", i, None, iters[i], cost(iters[i]))

e_freq(i) == EmptyCall("freq", i, None, iters[i], freq(iters[i]))

e_next_position(i) ==
    LET r == next_position(iters[i]) IN EmptyCall("next_position", i, None, r.self, r.ret)

e_start_offset(i) ==
    EmptyCall("start_offset", i, None, iters[i], start_offset(iters[i]))

e_end_offset(i) == EmptyCall("end_offset", i, None, iters[i], end_offset(iters[i]))

e_payload(i) == EmptyCall("payload", i, None, iters[i], payload(iters[i]))

e_clone(i) ==
    /\ Len(pcalls) < MaxCalls
    /\ i \in DOMAIN iters
    /\ Len(iters) < MaxIters
    /\ iters' = Append(iters, empty_clone(iters[i]))
    /\ plast' = [op |-> "clone", i |-> i, arg |-> None, ret |-> Len(iters) + 1]
    /\ pcalls' = Append(pcalls, [op |-> "clone", i |-> i])
    /\ UNCHANGED <<cvars, nvars, mvars>>

NextEmpty ==
    \/ \E i \in 1..MaxIters : e_doc_id(i)
    \/ \E i \in 1..MaxIters : e_next(i)
    \/ \E i \in 1..MaxIters, target \in Targets : e_advance(i, target)
    \/ \E i \in 1..MaxIters : e_cost(i)
    \/ \E i \in 1..MaxIters : e_freq(i)
    \/ \E i \in 1..MaxIters : e_next_position(i)
    \/ \E i \in 1..MaxIters : e_start_offset(i)
    \/ \E i \in 1..MaxIters : e_end_offset(i)
    \/ \E i \in 1..MaxIters : e_payload(i)
    \/ \E i \in 1..MaxIters : e_clone(i)

(***************************************************************************)
(*           PostingIteratorFlags  (posting_iterator.rs:5-35)              *)
(***************************************************************************)

\* Flags are u16 values: a << n drops the bits shifted out, | and & work on 16 bits.
U16Bits == 16
ShlU16(a, n) == (a * 2 ^ n) % 65536
OrU16(a, b) == BitOr(a, b, U16Bits)
AndU16(a, b) == BitAnd(a, b, U16Bits)

\* The constants, as the source computes them: << binds tighter than |.
NONE == 0
FREQS == ShlU16(1, 3)
POSITIONS == OrU16(FREQS, ShlU16(1, 4))
OFFSETS == OrU16(POSITIONS, ShlU16(1, 5))
PAYLOADS == OrU16(POSITIONS, ShlU16(1, 6))
ALL == OrU16(OFFSETS, PAYLOADS)

\* Mutant of feature_requested: any common bit satisfies the request.
feature_requested_any_bit(flags, feature) == AndU16(flags, feature) /= 0

feature_requested(flags, feature) == AndU16(flags, feature) = feature

\* The flag sets of a run: the constants, the single bits they are made of, and
\* values with bits no constant uses.
FlagValues ==
    {NONE, FREQS, POSITIONS, OFFSETS, PAYLOADS, ALL}
        \cup {ShlU16(1, 4), ShlU16(1, 5), ShlU16(1, 6)}
        \cup {1, ShlU16(1, 15), OrU16(ALL, 1), 65535}

\* Two flag sets and a feature are chosen; nothing has been asked yet.
InitFlags ==
    /\ iters = <<>>
    /\ pcalls = <<>>
    /\ \E a \in FlagValues, b \in FlagValues, feature \in FlagValues :
           plast = [op |-> "flags", a |-> a, b |-> b, feature |-> feature, ret |-> None]

\* The feature is asked of a, of b, and of a | b.
f_feature_requested ==
    /\ plast.op = "flags"
    /\ plast' = [plast EXCEPT
                    !.op = "feature_requested",
                    !.ret = [a |-> feature_requested(plast.a, plast.feature),
                             b |-> feature_requested(plast.b, plast.feature),
                             ab |-> feature_requested(OrU16(plast.a, plast.b),
                                                      plast.feature)]]
    /\ UNCHANGED <<cvars, nvars, mvars, iters, pcalls>>

NextFlags == f_feature_requested

(***************************************************************************)
(*                           Specifications                                *)
(***************************************************************************)

IdleTopDocs ==
    /\ pq = <<>> /\ estimated_hits = 0 /\ total_hits = 0 /\ reader_context = <<>>
    /\ channel = None /\ queue = <<>> /\ receiver = FALSE
    /\ leafs = [i \in Slots |-> FreeLeaf] /\ fin_pc = "idle" /\ aborted = FALSE
    /\ last = Called("new", TRUE) /\ top = NoTop /\ hist = NoHist(Limit(0, 0, 0))

IdleNorms ==
    /\ meta = <<>> /\ data = <<>> /\ max_doc = 0 /\ nstate = "none"
    /\ nlast = None /\ nhist = None

IdleMmap ==
    /\ map = <<>> /\ sources = <<>> /\ inputs = <<>> /\ mlast = None

IdlePosting ==
    /\ iters = <<>> /\ plast = None /\ pcalls = <<>>

StartTopDocs == InitTopDocs /\ IdleNorms /\ IdleMmap /\ IdlePosting
SpecTopDocs == StartTopDocs /\ [][NextTopDocs]_vars

StartNorms == InitNorms /\ IdleTopDocs /\ IdleMmap /\ IdlePosting
SpecNorms == StartNorms /\ [][NextNorms]_vars

StartWidth == InitWidth /\ IdleTopDocs /\ IdleMmap /\ IdlePosting
SpecWidth == StartWidth /\ [][NextWidth]_vars

StartMmap == InitMmap /\ IdleTopDocs /\ IdleNorms /\ IdlePosting
SpecMmap == StartMmap /\ [][NextMmap]_vars

StartRandom == InitRandom /\ IdleTopDocs /\ IdleNorms /\ IdlePosting
SpecRandom == StartRandom /\ [][NextRandom]_vars

StartSource == InitSource /\ IdleTopDocs /\ IdleNorms /\ IdlePosting
SpecSource == StartSource /\ [][NextSource]_vars

\* The sequential use of the collector, as in tests::test_collect: no sub-collector
\* is ever asked for and finish() is never called.
InitSequential ==
    /\ pq = <<>>
    /\ estimated_hits \in 0..MaxSeqK
    /\ total_hits = 0
    /\ reader_context = <<>>
    /\ channel = None
    /\ queue = <<>>
    /\ receiver = FALSE
    /\ leafs = [i \in Slots |-> FreeLeaf]
    /\ fin_pc = "idle"
    /\ aborted = FALSE
    /\ last = Called("new", TRUE)
    /\ top = NoTop
    /\ hist = NoHist(Limit(MaxSeqDocs, 0, MaxSeqScore))

NextSequential ==
    \/ \E s \in Segs : set_next_reader(s)
    \/ \E d \in LocalIds, sc \in 1..MaxSeqScore : collect(d, sc)
    \/ collect_score_err
    \/ top_docs

StartEmpty == InitEmpty /\ IdleTopDocs /\ IdleNorms /\ IdleMmap
SpecEmpty == StartEmpty /\ [][NextEmpty]_vars

StartFlags == InitFlags /\ IdleTopDocs /\ IdleNorms /\ IdleMmap
SpecFlags == StartFlags /\ [][NextFlags]_vars

StartSequential == InitSequential /\ IdleNorms /\ IdleMmap /\ IdlePosting
SpecSequential == StartSequential /\ [][NextSequential]_vars

LiveTopDocs == SpecTopDocs /\ WF_vars(finish_recv) /\ WF_vars(finish_return)

\* The collector fed by a scorer that breaks its contract: scores of negative
\* infinity and NaN next to a finite one. The heap holds at most MaxNanK entries, so
\* that no two entries are ever compared by Ord for ScoreDoc.
InitScores ==
    /\ pq = <<>>
    /\ estimated_hits \in 0..MaxNanK
    /\ total_hits = 0
    /\ reader_context = <<>>
    /\ channel = None
    /\ queue = <<>>
    /\ receiver = FALSE
    /\ leafs = [i \in Slots |-> FreeLeaf]
    /\ fin_pc = "idle"
    /\ aborted = FALSE
    /\ last = Called("new", TRUE)
    /\ top = NoTop
    /\ hist = NoHist(LimitSpecial(MaxNanDocs, MaxNanDocs, 1))

NextScores ==
    \/ \E s \in Segs : set_next_reader(s)
    \/ \E d \in LocalIds, sc \in {NegInf, NaN, 1} : collect(d, sc)
    \/ collect_score_err
    \/ \E s \in Segs : leaf_collector(s)
    \/ \E i \in Slots, d \in LocalIds, sc \in {NegInf, NaN, 1} : leaf_collect(i, d, sc)
    \/ \E i \in Slots : leaf_release(i)
    \/ finish_begin
    \/ finish_recv
    \/ finish_return
    \/ top_docs
    \/ collector_drop

StartScores == InitScores /\ IdleNorms /\ IdleMmap /\ IdlePosting
SpecScores == StartScores /\ [][NextScores]_vars

(***************************************************************************)
(*                    Properties of TopDocsCollector                       *)
(***************************************************************************)

RECURSIVE ScoreBag(_)
ScoreBag(h) ==
    IF h = <<>> THEN EmptyBag ELSE SetToBag({Head(h).score}) (+) ScoreBag(Tail(h))

\* The k largest members of a bag of numbers (all of them when it holds fewer).
RECURSIVE LargestK(_, _)
LargestK(b, k) ==
    IF k = 0 \/ BagToSet(b) = {} THEN EmptyBag
    ELSE LET m == SetMax(BagToSet(b)) IN
         SetToBag({m}) (+) LargestK(b (-) SetToBag({m}), k - 1)

MinScore(h) == SetMin({h[i].score : i \in 1..Len(h)})
MaxScoreOf(h) == SetMax({h[i].score : i \in 1..Len(h)})

\* The entries of a heap or of a result, and those scoring above its lowest score.
Entries(h) == {h[i] : i \in 1..Len(h)}
Above(h) == {e \in Entries(h) : e.score > MinScore(h)}

\* A single-threaded sequential collection of the inputs of a merge: the documents
\* collected directly, in their order, then each segment's documents, segment after
\* segment, each folded by add_doc.
RECURSIVE Fold(_, _, _)
Fold(st, k, docs) ==
    IF docs = <<>> THEN st
    ELSE Fold(add_doc(st.pq, st.total_hits, k, Head(docs)), k, Tail(docs))

RECURSIVE Concat(_, _)
Concat(f, n) == IF n = 0 THEN <<>> ELSE Concat(f, n - 1) \o f[n]

Sequential == Fold(hist.base[1], estimated_hits, Concat(hist.sent, NSeg))

\* top holds the result of a first top_docs() call made right after finish() returned.
MergedResult == last = Called("top_docs", TRUE) /\ top.first /\ top.merged

\* C1 as stated: after a merge of sub-collectors driven concurrently over segments
\* with disjoint doc-id ranges, top_docs() returns the same set of documents as a
\* single-threaded sequential collection of the same inputs, whatever the
\* interleaving of the sends.
C1_SameDocsAsSequential ==
    MergedResult => Entries(top.score_docs) = Entries(Sequential.pq)

\* C1 amended: the result has the same scores (as a multiset) and the same hit count
\* as the sequential collection, and the same documents among those scoring above
\* the lowest score returned; which documents tied at the lowest score are kept
\* depends on the order of arrival.
C1_SameScoresAsSequential ==
    MergedResult =>
        /\ ScoreBag(top.score_docs) = ScoreBag(Sequential.pq)
        /\ top.total_hits = Sequential.total_hits
        /\ top.score_docs /= <<>> => Above(top.score_docs) = Above(Sequential.pq)

\* C1 witness: a merged result of two sub-collectors whose sends interleaved (the
\* second segment's document arrived first) with more documents than capacity.
C1_Witness ==
    /\ MergedResult
    /\ hist.sent[1] /= <<>> /\ hist.sent[2] /= <<>>
    /\ top.total_hits > estimated_hits /\ estimated_hits > 0
    /\ Entries(top.score_docs) /= Entries(Sequential.pq)

\* The scores folded by the step, when it is a fold (total_hits grows by one).
Added == {s \in BagToSet(hist'.seen) : CopiesIn(s, hist'.seen) > CopiesIn(s, hist.seen)}

C2_State ==
    ~hist.popped =>
        /\ Len(pq) <= estimated_hits
        /\ ScoreBag(pq) = LargestK(hist.seen, estimated_hits)

C2_Step ==
    (total_hits' = total_hits + 1 /\ Len(pq) = estimated_hits) =>
        IF estimated_hits > 0 /\ \E s \in Added : s > MinScore(pq)
        THEN \E s \in Added :
               ScoreBag(pq') = (ScoreBag(pq) (-) SetToBag({MinScore(pq)})) (+) SetToBag({s})
        ELSE pq' = pq

\* C2: as long as nothing was popped, the heap holds at most K entries and their
\* scores are exactly the K largest scores folded so far (by collect or by finish);
\* at capacity a fold replaces the lowest score only by a strictly greater one and
\* otherwise leaves the heap as it is.
C2_HeapHoldsKLargest == []C2_State /\ [][C2_Step]_vars

\* C2 witness: a heap at capacity after folds by collect and by finish, with a
\* folded score that is not in the heap.
C2_Witness ==
    /\ ~hist.popped /\ estimated_hits > 0 /\ Len(pq) = estimated_hits
    /\ hist.ndirect > 0 /\ hist.nsent > 0 /\ last = Called("finish", TRUE)
    /\ MinScore(pq) > SetMin(BagToSet(hist.seen))

\* C3: when finish() has returned, total_hits is the number of documents collected
\* directly plus the number sent by the sub-collectors, and nothing is left in the
\* channel.
C3_TotalHitsCountsAll ==
    last = Called("finish", TRUE) =>
        /\ total_hits = hist.ndirect + hist.nsent
        /\ queue = <<>>

\* C3 witness: finish() returned after direct and sub-collector documents, some of
\* which did not enter the heap.
C3_Witness ==
    /\ last = Called("finish", TRUE)
    /\ hist.ndirect > 0 /\ hist.nsent > 1
    /\ total_hits > Len(pq) /\ ~hist.popped

C4_Step == (fin_pc = "draining" /\ fin_pc' = "idle") => (Alive = {} /\ Alive' = {})

\* C4: finish() does not return while a sub-collector handle is alive, and once all
\* handles are released a finish() in progress returns.
C4_FinishWaitsForHandles ==
    [][C4_Step]_vars /\ ((fin_pc = "draining" /\ Alive = {}) ~> (fin_pc = "idle"))

\* C4 witness: finish() has returned after handles were handed out, used and released.
C4_Witness ==
    /\ last = Called("finish", TRUE)
    /\ hist.nsent > 0
    /\ \A i \in Slots : leafs[i].st = "released"

\* C9: every entry in the heap or on its way to it carries the local id it was
\* collected with plus the doc base of the segment it was collected from.
C9_GlobalIds ==
    \A e \in Entries(pq) \cup Entries(queue) : e.doc = e.local + DocBase(e.seg)

\* C9 witness: the heap holds a document of segment 2 collected by a sub-collector
\* while the collector's own reader context is segment 1.
C9_Witness ==
    /\ last = Called("finish", TRUE)
    /\ hist.cur_seg = 1 /\ hist.ndirect = 0
    /\ \E e \in Entries(pq) : e.seg = 2 /\ e.local = 1 /\ e.doc = 3

Ordered(sd) == \A i \in 1..(Len(sd) - 1) : sd[i].score >= sd[i + 1].score

\* C8 as stated: every top_docs() returns min(K, total_hits) entries, highest score
\* first, with total_hits.
C8_EveryTopDocs ==
    last = Called("top_docs", TRUE) =>
        /\ Len(top.score_docs) = Min(estimated_hits, top.total_hits)
        /\ Ordered(top.score_docs)
        /\ top.total_hits = hist.ndirect

\* C8 amended: the first top_docs() call returns min(K, total_hits) entries, highest
\* score first (the highest score collected leading), with total_hits.
C8_FirstTopDocs ==
    (last = Called("top_docs", TRUE) /\ top.first) =>
        /\ Len(top.score_docs) = Min(estimated_hits, top.total_hits)
        /\ Ordered(top.score_docs)
        /\ ScoreBag(top.score_docs) = LargestK(hist.seen, estimated_hits)
        /\ top.total_hits = hist.ndirect
        /\ total_hits = top.total_hits

\* C8 witness: K = 3, five documents collected, three returned, the best first.
C8_Witness ==
    /\ last = Called("top_docs", TRUE) /\ top.first
    /\ estimated_hits = 3 /\ top.total_hits = 5 /\ Len(top.score_docs) = 3
    /\ top.score_docs[1].score = 3 /\ top.score_docs[3].score = 2
    /\ SetMin(BagToSet(hist.seen)) = 1

(***************************************************************************)
(*                 Properties of Lucene53NormsConsumer                     *)
(***************************************************************************)

\* Reading meta back, as the format reads: a vint ends at its first byte below 128,
\* within five bytes.
\* A collect on a sub-collector returns an error exactly when the Receiver of its
\* channel is gone, and otherwise puts its document into the channel.
C19_Step ==
    last'.op = "leaf_collect" =>
        IF receiver
        THEN /\ last'.ok
             /\ Len(queue') = Len(queue) + 1
             /\ hist'.nsent = hist.nsent + 1
        ELSE /\ ~last'.ok
             /\ queue' = queue /\ hist'.nsent = hist.nsent

\* C19: a sub-collector's collect whose send cannot be delivered because the
\* channel's receiving side has been released returns an error to its caller, never
\* success.
C19_SendFailureSurfaces == [][C19_Step]_vars

\* C19 witness: a sub-collector that outlived its collector got an error from collect.
C19_Witness ==
    /\ last = Called("leaf_collect", FALSE)
    /\ fin_pc = "dropped" /\ ~receiver
    /\ Alive /= {}

\* C20: finish() on a collector that has handed out no sub-collector (only direct
\* collect calls, or none) returns Ok without aborting the process and leaves the
\* heap and total_hits unchanged.
C20_FinishWithoutSubCollectors ==
    (last.op = "finish" /\ \A s \in Slots : leafs[s].st = "free") =>
        /\ last.ok /\ ~aborted
        /\ total_hits = hist.ndirect


\* C21: a score that is NaN or negative infinity never enters the heap, neither by
\* a direct collect nor by a sub-collector's collect merged in finish.
C21_NoIllegalScoreInHeap ==
    \A i \in 1..Len(pq) : ~IllegalScore(pq[i].score)

\* A top_docs step returns what the heap held and leaves it empty; the step after
\* it, when it is a top_docs again, returns nothing with the same total_hits, and
\* when it is a collect that succeeds, leaves its document alone in the heap.
C24_Step ==
    /\ last'.op = "top_docs" =>
           /\ pq' = <<>>
           /\ total_hits' = total_hits
           /\ top'.total_hits = total_hits
           /\ ScoreBag(top'.score_docs) = ScoreBag(pq)
    /\ (last.op = "top_docs" /\ last'.op = "top_docs") =>
           /\ top'.score_docs = <<>>
           /\ top'.total_hits = top.total_hits
    /\ (last.op = "top_docs" /\ last' = Called("collect", TRUE)) =>
           /\ total_hits' = total_hits + 1
           /\ Len(pq') = Min(1, estimated_hits)

\* C24: top_docs() removes every entry it returns from the heap and leaves
\* total_hits unchanged: a second top_docs() with no collection in between returns
\* no entry and the same total_hits, and documents collected afterwards compete
\* against an empty heap.
C24_TopDocsConsumes == [][C24_Step]_vars

\* C24 witness: a second top_docs() of a collector that had kept documents returned
\* no entry and the total_hits of the first.
C24_Witness ==
    /\ last = Called("top_docs", TRUE) /\ ~top.first
    /\ estimated_hits > 0 /\ hist.ndirect > 0
    /\ top.score_docs = <<>> /\ top.total_hits = total_hits /\ total_hits > 0

(***************************************************************************)
(*                 Properties of EmptyPostingIterator                      *)
(***************************************************************************)

\* What the last call returned, by method.
C22_State ==
    /\ plast.op \in {"next", "advance"} =>
           /\ plast.ret = Ok(NO_MORE_DOCS)
           /\ iters[plast.i].doc_id = NO_MORE_DOCS
    /\ plast.op = "doc_id" => plast.ret = iters[plast.i].doc_id
    /\ plast.op = "freq" => plast.ret = Ok(0)
    /\ plast.op \in {"next_position", "start_offset", "end_offset"} =>
           plast.ret = Ok(0 - 1)
    /\ plast.op = "payload" => plast.ret = Ok(<<>>)
    /\ plast.op = "cost" => plast.ret = 0

\* An iterator at the sentinel stays there, whatever is called on it or on another.
C22_Step ==
    \A i \in DOMAIN iters :
        iters[i].doc_id = NO_MORE_DOCS => iters'[i].doc_id = NO_MORE_DOCS

\* C22: whatever the calls on an EmptyPostingIterator, their order and their number,
\* next() and advance(target) return the no-more-documents sentinel and doc_id()
\* reports it from then on, freq() is 0, next_position(), start_offset() and
\* end_offset() are -1, payload() is empty and cost() is 0.
C22_AlwaysExhausted == []C22_State /\ [][C22_Step]_vars

\* C22 witness: doc_id() reports the sentinel two calls after an advance, with a
\* call of another method in between.
C22_Witness ==
    /\ Len(pcalls) = 3
    /\ pcalls[1].op = "advance" /\ pcalls[2].op = "freq" /\ pcalls[3].op = "doc_id"
    /\ pcalls[1].i = pcalls[3].i
    /\ plast.ret = NO_MORE_DOCS

(***************************************************************************)
(*                 Properties of PostingIteratorFlags                      *)
(***************************************************************************)

\* The bits set in a u16.
BitsOf(n) == {k \in 0..(U16Bits - 1) : (n \div 2 ^ k) % 2 = 1}

\* "x satisfies y": a flag set x answers a request for feature y.
Satisfies(x, y) == BitsOf(y) \subseteq BitsOf(x)

\* What the answers of a run must be, given its flag sets and its feature.
FlagAnswers ==
    LET a == plast.a  b == plast.b  feature == plast.feature  ret == plast.ret IN
    /\ ret.a = Satisfies(a, feature)
    /\ ret.b = Satisfies(b, feature)
    /\ ret.a = (AndU16(a, feature) = feature)
    /\ (a = POSITIONS /\ feature = FREQS) => ret.a
    /\ (a \in {OFFSETS, PAYLOADS} /\ feature \in {POSITIONS, FREQS}) => ret.a
    /\ (a = OFFSETS /\ feature = PAYLOADS) => ~ret.a
    /\ (a = PAYLOADS /\ feature = OFFSETS) => ~ret.a
    /\ (a = ALL /\ feature \in {NONE, FREQS, POSITIONS, OFFSETS, PAYLOADS, ALL}) => ret.a
    /\ feature = NONE => ret.a
    /\ a = NONE => (ret.a = (feature = NONE))
    /\ (ret.a \/ ret.b) => ret.ab

\* C23: feature_requested(flags, feature) is true exactly when (flags & feature) ==
\* feature; POSITIONS satisfies FREQS; OFFSETS and PAYLOADS each satisfy POSITIONS
\* and FREQS and neither satisfies the other; ALL = OFFSETS | PAYLOADS satisfies every
\* capability; NONE is satisfied by every flag set and satisfies nothing but NONE;
\* the OR of two flag sets satisfies every feature either of them satisfies.
C23_CapabilityLattice ==
    /\ ALL = OrU16(OFFSETS, PAYLOADS)
    /\ plast.op = "feature_requested" => FlagAnswers

\* C23 witness: ALL was asked of OFFSETS and of PAYLOADS, which do not satisfy it,
\* and of their OR, which does.
C23_Witness ==
    /\ plast.op = "feature_requested"
    /\ plast.a = OFFSETS /\ plast.b = PAYLOADS /\ plast.feature = ALL
    /\ ~plast.ret.a /\ ~plast.ret.b /\ plast.ret.ab

VIntEnd(b) ==
    LET ends == {i \in 1..Min(5, Len(b)) : b[i] < 128} IN
    IF ends = {} THEN 0 ELSE SetMin(ends)

RECURSIVE VIntLow(_, _)
VIntLow(b, n) == IF n = 0 THEN 0 ELSE (b[1] % 128) + 128 * VIntLow(Tail(b), n - 1)

\* The i32 a vint of n bytes stands for (its fifth byte holds bits 28..31).
VIntValue(b, n) ==
    IF n < 5 THEN VIntLow(b, n)
    ELSE LET hi == b[5] % 16 IN
         VIntLow(b, 4) + (IF hi >= 8 THEN hi - 16 ELSE hi) * Pow2(28)

Markers == {0, 1, 2, 4, 8}

\* The records of a meta body: field number, marker and 8-byte payload, repeated, up
\* to the field number -1, which must end the body.
RECURSIVE ParseMeta(_)
ParseMeta(b) ==
    LET n == VIntEnd(b) IN
    IF n = 0 THEN [ok |-> FALSE, records |-> <<>>]
    ELSE LET number == VIntValue(b, n)
             rest == SubSeq(b, n + 1, Len(b))
         IN IF number = 0 - 1 THEN [ok |-> rest = <<>>, records |-> <<>>]
            ELSE IF Len(rest) < 9 \/ rest[1] \notin Markers
                 THEN [ok |-> FALSE, records |-> <<>>]
                 ELSE LET p == ParseMeta(SubSeq(rest, 10, Len(rest))) IN
                      [ok |-> p.ok,
                       records |-> <<[number |-> number, marker |-> rest[1],
                                      payload |-> SubSeq(rest, 2, 9)]>> \o p.records]

\* meta without its footer.
MetaBody == SubSeq(meta, 1, Len(meta) - 1)

SelectEv(file, op) ==
    SelectSeq(nhist.wlog, LAMBDA e : e.file = file /\ e.op = op)

\* The field numbers written to meta, in order.
FieldNumbersWritten ==
    LET evs == SelectSeq(nhist.wlog,
                         LAMBDA e : e.file = "meta" /\ e.op = "vint" /\ e.v /= 0 - 1)
    IN [i \in 1..Len(evs) |-> evs[i].v]

\* C5: a call that fails with a count mismatch has written nothing: meta and data are
\* as they were before the call.
C5_MismatchWritesNothing ==
    nlast.result = "count_mismatch" => (meta = nlast.meta /\ data = nlast.data)

\* C6: after teardown the meta body reads back as complete records followed by the
\* terminator -1, one record for every field number that was written.
C6_MetaOnlyCompleteRecords ==
    nstate = "dropped" =>
        LET p == ParseMeta(MetaBody) IN
        /\ p.ok
        /\ [i \in 1..Len(p.records) |-> p.records[i].number] = FieldNumbersWritten

Count(q, x) == Cardinality({i \in 1..Len(q) : q[i] = x})
Last(q, n) == SubSeq(q, Len(q) - n + 1, Len(q))

C7_State ==
    /\ nstate = "live" => Count(meta, FooterMark) = 0 /\ Count(data, FooterMark) = 0
    /\ nstate = "dropped" =>
         /\ Len(nhist.wlog) >= 3
         /\ Last(nhist.wlog, 3) = <<Ev("meta", "vint", 0 - 1), Ev("meta", "footer", 0),
                                    Ev("data", "footer", 0)>>
         /\ Len(SelectEv("meta", "footer")) = 1
         /\ Len(SelectEv("data", "footer")) = 1
         /\ Count(nhist.wlog, Ev("meta", "vint", 0 - 1)) = 1
         /\ meta = nlast.meta \o <<255, 255, 255, 255, 15, FooterMark>>
         /\ data = nlast.data \o <<FooterMark>>

C7_Step == nstate = "dropped" => (meta' = meta /\ data' = data)

\* C7: teardown writes the terminator -1 to meta, then the footer of meta, then the
\* footer of data, each once and after every field record, whatever calls succeeded
\* or failed before, and nothing is written afterwards.
C7_TeardownFinalizesOnce == []C7_State /\ [][C7_Step]_vars

\* C7 witness: a writer torn down after one call that succeeded and one that failed.
C7_Witness ==
    /\ nstate = "dropped"
    /\ nhist.ncalls = 2 /\ Len(nhist.records) = 1
    /\ data /= <<FooterMark>>


\* The values of a sequence, each as W bytes, one after the other.
RECURSIVE EncodeAll(_, _)
EncodeAll(items, W) ==
    IF items = <<>> THEN <<>> ELSE BytesBE(Head(items).v, W) \o EncodeAll(Tail(items), W)

\* The non-constant records written so far, from the log of the writes to meta: the
\* marker byte W /= 0 and the offset written right after it.
WidthOffsets ==
    LET at == {i \in 1..(Len(nhist.wlog) - 1) :
                 /\ nhist.wlog[i].file = "meta" /\ nhist.wlog[i].op = "byte"
                 /\ nhist.wlog[i].v /= 0}
        RECURSIVE InOrder(_)
        InOrder(S) == IF S = {} THEN <<>>
                      ELSE <<[W |-> nhist.wlog[SetMin(S)].v,
                              offset |-> nhist.wlog[SetMin(S) + 1].v]>>
                           \o InOrder(S \ {SetMin(S)})
    IN InOrder(at)

\* The last call succeeded for a field whose values are not all equal.
NonConstantOk ==
    /\ nlast.op = "add_norms_field" /\ nlast.result = "ok"
    /\ Cardinality({nlast.items[k].v : k \in 1..Len(nlast.items)}) > 1

\* C16: whenever add_norms_field succeeds for a field whose values are not all equal,
\* the meta record holds the chosen width W and the data offset as it was before the
\* field's first value, and data has grown by exactly max_doc values of W bytes, in
\* document order, equal to the values of the first pass; the data ranges of
\* consecutive fields are contiguous and do not overlap.
C16_DataRanges ==
    /\ NonConstantOk =>
          LET W == meta[Len(nlast.meta) + Len(VInt(nlast.number)) + 1] IN
          /\ W \in {1, 2, 4, 8}
          /\ meta = nlast.meta \o VInt(nlast.number) \o <<W>>
                       \o BytesBE(DataHeaderLen + Len(nlast.data), 8)
          /\ Len(nlast.items) = max_doc
          /\ data = nlast.data \o EncodeAll(nlast.items, W)
          /\ Len(data) = Len(nlast.data) + max_doc * W
    /\ nstate = "live" =>
          LET r == WidthOffsets IN
          /\ \A k \in 1..Len(r) :
                r[k].offset = IF k = 1 THEN DataHeaderLen
                              ELSE r[k - 1].offset + max_doc * r[k - 1].W
          /\ DataHeaderLen + Len(data) =
                IF r = <<>> THEN DataHeaderLen
                ELSE r[Len(r)].offset + max_doc * r[Len(r)].W

\* C16 witness: two non-constant fields written one after the other, the first one
\* byte wide and the second two bytes wide, for two documents.
C16_Witness ==
    /\ NonConstantOk /\ max_doc = 2
    /\ Len(WidthOffsets) = 2
    /\ WidthOffsets[1].W = 1 /\ WidthOffsets[2].W = 2
    /\ WidthOffsets[2].offset = DataHeaderLen + 2


\* The eight bytes of an i64, least significant first.
ToBytes(v) ==
    [k \in 1..8 |-> IF k % 2 = 1 THEN v[(k + 1) \div 2] % 256 ELSE v[k \div 2] \div 256]

\* v written as W bytes (its W low bytes) and read back as a signed W-byte number.
RoundTrip(v, W) == SignExtend(SubSeq(ToBytes(v), 1, W), 8)

\* The signed W-byte range contains v.
Fits(v, W) == RoundTrip(v, W) = ToBytes(v)

\* C17: the width written for a non-constant field is the smallest W in {1,2,4,8}
\* whose signed W-byte range contains both the minimum and the maximum value, so that
\* every value between them round-trips through its W-byte encoding; values within
\* [-128, 127] give width 1, and a value of 200 among them gives width 2.
C17_NarrowestWidth ==
    nlast.op = "add_byte" =>
        LET W == nlast.len IN
        /\ W \in {1, 2, 4, 8}
        /\ Fits(nlast.min_value, W) /\ Fits(nlast.max_value, W)
        /\ \A V \in {1, 2, 4, 8} :
              V < W => ~(Fits(nlast.min_value, V) /\ Fits(nlast.max_value, V))
        /\ \A v \in WidthValues :
              (~LtI64(v, nlast.min_value) /\ ~LtI64(nlast.max_value, v)) => Fits(v, W)
        /\ (nlast.min_value = I64(0 - 128) /\ nlast.max_value = I64(127)) => W = 1
        /\ (nlast.min_value = I64(0 - 128) /\ nlast.max_value = I64(200)) => W = 2

\* C17 witness: values from -128 up to 200, which no longer fit one byte.
C17_Witness ==
    /\ nlast.op = "add_byte"
    /\ nlast.min_value = I64(0 - 128) /\ nlast.max_value = I64(200)
    /\ nlast.len = 2


\* The last call succeeded for a field whose values all equal one constant.
ConstantOk ==
    /\ nlast.op = "add_norms_field" /\ nlast.result = "ok"
    /\ Cardinality({nlast.items[k].v : k \in 1..Len(nlast.items)}) = 1

\* C18: for a field whose max_doc values all equal the same constant C,
\* add_norms_field appends to meta exactly the field number, the marker byte 0 and
\* the 8-byte value C, and writes nothing to data.
C18_ConstantRecord ==
    ConstantOk =>
        LET C == nlast.items[1].v IN
        /\ Len(nlast.items) = max_doc
        /\ meta = nlast.meta \o VInt(nlast.number) \o <<0>> \o BytesBE(C, 8)
        /\ data = nlast.data
        /\ data_file_pointer(World) = DataHeaderLen + Len(nlast.data)

\* C18 witness: the constant -1 for two documents, written after a field that went
\* to data.
C18_Witness ==
    /\ ConstantOk /\ max_doc = 2
    /\ nlast.items[1].v = 0 - 1
    /\ data /= <<>>
    /\ Last(meta, 8) = <<255, 255, 255, 255, 255, 255, 255, 255>>


(***************************************************************************)
(*                     Properties of MmapIndexInput                        *)
(***************************************************************************)

\* A full sequential read: the bytes read() hands out one at a time from position 0
\* until it returns a count of 0.
RECURSIVE ReadFrom(_)
ReadFrom(inp) ==
    LET out == read_impl(inp, 1) IN
    IF out = <<>> THEN <<>>
    ELSE out \o ReadFrom([inp EXCEPT !.position = @ + 1])

ReadAll(inp) == ReadFrom([inp EXCEPT !.position = 0])

InBounds(inp, offset, length) ==
    offset >= 0 /\ length >= 0 /\ offset + length <= input_len(inp)

\* C10: for every in-bounds (offset, length) on an input, one that is itself a slice
\* included, slice(offset, length) succeeds with an input of length exactly length,
\* positioned at 0, whose sequential bytes are bytes [offset, offset+length) of the
\* parent's sequential bytes; and a sequential read on any input returns the next
\* bytes of its own view only, never more than remain before its own end.
C10_SliceBytes ==
    /\ \A i \in 1..Len(inputs) :
          /\ ReadAll(inputs[i]) = inputs[i].view
          /\ Len(inputs[i].view) = input_len(inputs[i])
          /\ inputs[i].position <= input_len(inputs[i])
    /\ (mlast.op = "slice" /\ InBounds(inputs[mlast.i], mlast.a, mlast.b)) =>
          LET parent == inputs[mlast.i]
              new == inputs[Len(inputs)]
          IN /\ mlast.result = "ok"
             /\ input_len(new) = mlast.b
             /\ new.position = 0
             /\ ReadAll(new) = SubSeq(ReadAll(parent), mlast.a + 1, mlast.a + mlast.b)
    /\ mlast.op = "read" =>
          LET inp == inputs[mlast.i] IN
          /\ Len(mlast.out) = Min(mlast.a, input_len(inp) - mlast.pos)
          /\ mlast.out = SubSeq(ReadAll(inp), mlast.pos + 1, mlast.pos + Len(mlast.out))
          /\ inp.position = mlast.pos + Len(mlast.out)

\* C10 witness: a read on a slice of a slice, both cut with a non-zero offset and
\* ending before their parent does, that asked for more bytes than remained and got
\* only the slice's own last bytes.
C10_Witness ==
    /\ Len(inputs) = 2 /\ mlast.op = "read" /\ mlast.i = 2
    /\ inputs[1].start > 0
    /\ inputs[2].start > inputs[1].start /\ inputs[2].end < inputs[1].end
    /\ inputs[2].source.offset + inputs[2].end < MapLen
    /\ mlast.out /= <<>> /\ Len(mlast.out) < mlast.a
    /\ inputs[2].position = input_len(inputs[2])

(***************************************************************************)
(*                Properties of ReadOnlySource and slicing                 *)
(***************************************************************************)

\* a + b > c as numbers, for u64 a, b and c.
SumExceeds(a, b, c) == AddU64(a, b).carry \/ LtU64(c, AddU64(a, b).value)

\* The arguments of a call on a source ask for bytes outside it.
OutOfBounds(self, op, a, b) ==
    CASE op = "range" -> SumExceeds(a, b, self.len)
      [] op = "slice" -> LtU64(b, a) \/ LtU64(self.len, b)
      [] op \in {"slice_from", "slice_to", "split"} -> LtU64(self.len, a)
      [] OTHER -> FALSE

\* The view lies within the source self.
Within(view, self) ==
    LET stop == AddU64(view.offset, view.len)
        self_stop == AddU64(self.offset, self.len)
    IN /\ ~LtU64(view.offset, self.offset)
       /\ ~stop.carry
       /\ ~LtU64(self_stop.value, stop.value)

\* C11: slicing out of bounds always fails with IllegalArgument and never yields a
\* view reaching outside its source: range/slice/slice_from/slice_to of a source and
\* slice of an input, for all values of the u64 and i64 arguments; every source that
\* exists lies within the mapping.
C11_OutOfBoundsFails ==
    /\ mlast.op \in {"range", "slice", "slice_from", "slice_to"} =>
          LET self == sources[mlast.i] IN
          /\ OutOfBounds(self, mlast.op, mlast.a, mlast.b) => mlast.result = "err"
          /\ \A k \in 1..Len(mlast.out) : Within(mlast.out[k], self)
    /\ mlast.op = "input_slice" =>
          LET total_len == I64(input_len(inputs[mlast.i]))
              sum == AddI64(mlast.a, mlast.b)
          IN (\/ NegI64(mlast.a) \/ NegI64(mlast.b)
              \/ sum.overflow \/ LtI64(total_len, sum.value)) => mlast.result = "err"
    /\ \A i \in 1..Len(sources) : InMapping(sources[i])

\* C14: for a source of length len (one with a non-zero offset into the mapping
\* included) and addr <= len, split(addr) returns (slice_to(addr), slice_from(addr)),
\* with a left half of length addr, a right half of length len - addr, and the left
\* bytes followed by the right bytes equal to the source's bytes; addr > len fails
\* with IllegalArgument.
C14_SplitHalves ==
    (mlast.op = "split" /\ InMapping(sources[mlast.i])) =>
        LET self == sources[mlast.i]
            addr == mlast.a
        IN IF LtU64(self.len, addr) THEN mlast.result = "err"
           ELSE /\ mlast.result = "ok"
                /\ Len(mlast.out) = 2
                /\ \A build \in Builds :
                      /\ <<mlast.out[1]>> = slice_to(self, addr, build).out
                      /\ <<mlast.out[2]>> = slice_from(self, addr, build).out
                /\ mlast.out[1].len = addr
                /\ mlast.out[2].len = SubU64(self.len, addr)
                /\ InMapping(mlast.out[1]) /\ InMapping(mlast.out[2])
                /\ as_slice(mlast.out[1]) \o as_slice(mlast.out[2]) = as_slice(self)

\* C14 witness: a split strictly inside a source that starts after the mapping's
\* first byte and ends before its last.
C14_Witness ==
    /\ mlast.op = "split" /\ mlast.result = "ok"
    /\ InMapping(sources[mlast.i])
    /\ ToInt(sources[mlast.i].offset) > 0
    /\ ToInt(sources[mlast.i].offset) + ToInt(sources[mlast.i].len) < Len(map)
    /\ ToInt(mlast.a) > 0 /\ ToInt(mlast.a) < ToInt(sources[mlast.i].len)


(***************************************************************************)
(*                   Properties of the random-access reads                 *)
(***************************************************************************)

\* The n bytes of view from position p on, read as a big-endian number: the byte at p
\* is the most significant.
BigEndian(view, p, n) == [k \in 1..n |-> view[p + n + 1 - k]]

ReadWidth(op) ==
    CASE op = "read_byte" -> 1 [] op = "read_short" -> 2
      [] op = "read_int" -> 4 [] op = "read_long" -> 8

RandomReads == {"read_byte", "read_short", "read_int", "read_long"}

\* C12: a random-access read_byte/read_short/read_int/read_long at position p of a
\* view returns the big-endian interpretation of the view's bytes from p when all the
\* bytes it needs are inside the view, fails with IllegalArgument when p is negative
\* or a needed byte lies at or beyond the view's length, and in both cases leaves the
\* cursor position as it was.
C12_RandomReadsBigEndian ==
    mlast.op \in RandomReads =>
        LET inp == inputs[mlast.i]
            n == ReadWidth(mlast.op)
            p == mlast.a
        IN /\ inp.position = mlast.pos
           /\ IF ~NegI64(p) /\ Small(p) /\ ToInt(p) + n <= Len(inp.view)
              THEN /\ mlast.result = "ok"
                   /\ mlast.out = BigEndian(inp.view, ToInt(p), n)
              ELSE mlast.result = "err"

\* C12 witness: a read_long at a non-zero position of a slice that starts inside the
\* file, whose low half has its top bit set while its high half has not.
C12_Witness ==
    /\ mlast.op = "read_long" /\ mlast.result = "ok" /\ mlast.i = 2
    /\ inputs[2].start > 0 /\ ToInt(mlast.a) > 0
    /\ mlast.out[4] >= 128 /\ mlast.out[8] < 128
    /\ inputs[1].position = 2

(***************************************************************************)
(*                  Properties of the sequential cursor                    *)
(***************************************************************************)

\* C13: after any sequence of seek and read calls position stays within [0, length];
\* seek(pos) with pos < 0 or pos > length returns IllegalArgument as an error value,
\* never aborting the process, and leaves position unchanged; read advances position
\* by the number of bytes copied, and a read at the end returns zero bytes without
\* error and without moving position.
C13_PositionWithinLength ==
    /\ \A i \in 1..Len(inputs) :
          0 <= inputs[i].position /\ inputs[i].position <= input_len(inputs[i])
    /\ mlast.op = "seek" =>
          LET inp == inputs[mlast.i] IN
          IF mlast.a < 0 \/ mlast.a > input_len(inp)
          THEN mlast.result = "err" /\ inp.position = mlast.pos
          ELSE mlast.result = "ok" /\ inp.position = mlast.a
    /\ mlast.op = "read" =>
          LET inp == inputs[mlast.i] IN
          /\ mlast.result = "ok"
          /\ inp.position = mlast.pos + Len(mlast.out)
          /\ mlast.pos = input_len(inp) => mlast.out = <<>> /\ inp.position = mlast.pos

\* After clone() the new cursor is over the same bytes and bounds as the original and
\* stands at the original's position.
C15_State ==
    mlast.op = "clone" =>
        LET orig == inputs[mlast.i]
            new == inputs[Len(inputs)]
        IN /\ ReadAll(new) = ReadAll(orig)
           /\ new.start = orig.start /\ new.end = orig.end
           /\ new.position = orig.position /\ orig.position = mlast.pos

\* A seek or a read on one cursor leaves every other cursor as it was.
C15_Step ==
    mlast'.op \in {"seek", "read"} =>
        \A i \in 1..Len(inputs) :
            i /= mlast'.i =>
                /\ inputs'[i].position = inputs[i].position
                /\ ReadAll(inputs'[i]) = ReadAll(inputs[i])

\* C15: clone() of a cursor yields a cursor over the same bytes and bounds that
\* starts at the original's current position; afterwards any sequence of seek and
\* read calls on either cursor, in any interleaving, leaves the other cursor's
\* position and readable bytes unchanged.
C15_CloneIndependent == []C15_State /\ [][C15_Step]_vars

\* C15 witness: two cursors over the same bytes and bounds, the second made while
\* the first stood past the start, after a read moved the second one only.
C15_Witness ==
    /\ Len(inputs) = 2 /\ mlast.op = "read" /\ mlast.i = 2 /\ mlast.out /= <<>>
    /\ inputs[1].cursor = inputs[2].cursor
    /\ inputs[1].start = inputs[2].start /\ inputs[1].end = inputs[2].end
    /\ inputs[1].start > 0
    /\ inputs[1].position > 0 /\ inputs[2].position > inputs[1].position

====
